---- MODULE Spec2Model ----
(***************************************************************************)
(* Model of AdvancedCodeAnalyzer (src/advanced_analyzer.py): the per-file  *)
(* pass of analyze_project, the Python structural analysis with its regex  *)
(* fallback, the duplicate-window detector and the project metrics.        *)
(*                                                                         *)
(* A source file is abstracted to the facts the analyzer extracts from it  *)
(* (its language, whether it can be read, how ast.parse and the tree walks *)
(* end, its imports and functions, the lines each regex rule matches, its  *)
(* normalized lines).  The analyzer's own logic: the order of the steps,   *)
(* the exception handlers, the thresholds, the hash multimap, the report   *)
(* groups and the metric formulas, is modelled step by step.               *)
(***************************************************************************)
EXTENDS Integers, Sequences, FiniteSets, TLC

\* ------------------------------------------------------------------ bounds
\* Longest input file list.
MaxFiles == 2
\* Size of the modelled hash range (the real one is 2^64; collisions exist).
HashMod == 16

PathIds == 1..MaxFiles
\* The per-process string-hash seeds tried (PYTHONHASHSEED).
Seeds == {0, 1}

\* ------------------------------------------------------------ rule tables
\* Rule name -> severity, in the dict order of the source.
PyRuleOrder == <<"bare_except", "import_star", "mutable_default", "eval_usage">>
PYTHON_ANTI_PATTERNS ==
  [bare_except |-> "high", import_star |-> "medium",
   mutable_default |-> "medium", eval_usage |-> "high"]

JsRuleOrder == <<"var_usage", "triple_equals", "eval_usage", "with_statement">>
JS_ANTI_PATTERNS ==
  [var_usage |-> "medium", triple_equals |-> "medium",
   eval_usage |-> "high", with_statement |-> "high"]

SecRuleOrder == <<"sql_injection", "xss", "eval_input", "hardcoded_credentials">>
SECURITY_VULNERABILITIES ==
  [sql_injection |-> [severity |-> "critical",
                      languages |-> {"python", "javascript", "php", "ruby"}],
   xss |-> [severity |-> "critical", languages |-> {"javascript", "html"}],
   eval_input |-> [severity |-> "critical",
                   languages |-> {"python", "javascript", "php"}],
   hardcoded_credentials |-> [severity |-> "critical", languages |-> {"all"}]]

PerfRuleOrder == <<"inefficient_loop", "nested_loops", "multiple_dom_access">>
PERFORMANCE_ISSUES ==
  [inefficient_loop |-> [severity |-> "medium", languages |-> {"python"},
                         regex |-> TRUE],
   nested_loops |-> [severity |-> "high", languages |-> {"all"},
                     regex |-> FALSE],
   multiple_dom_access |-> [severity |-> "medium",
                            languages |-> {"javascript"}, regex |-> TRUE]]

\* str.lower() on the language tags used here.
Lower(language) ==
  CASE language = "Python" -> "python"
    [] language = "JavaScript" -> "javascript"
    [] language = "Java" -> "java"
    [] OTHER -> "unknown"

\* -------------------------------------------------------- abstract files
\* Normalized source lines are numbered; each has a length in characters,
\* a count of \w+ tokens and a flag: does it hold a run of 3+ letters.
LineLen(l) == CASE l \in 1..6 -> 30 [] l = 7 -> 1 [] l = 8 -> 40 [] OTHER -> 0
LineTok(l) == CASE l \in 1..6 -> l [] l = 8 -> 2 [] OTHER -> 0
LineWord(l) == l \in 1..6

NoPy == [bare_except |-> <<>>, import_star |-> <<>>,
         mutable_default |-> <<>>, eval_usage |-> <<>>]
NoJs == [var_usage |-> <<>>, triple_equals |-> <<>>,
         eval_usage |-> <<>>, with_statement |-> <<>>]
NoSec == [sql_injection |-> <<>>, xss |-> <<>>, eval_input |-> <<>>,
          hardcoded_credentials |-> <<>>]
NoPerf == [inefficient_loop |-> <<>>, nested_loops |-> <<>>,
           multiple_dom_access |-> <<>>]
\* The rules of each table whose evaluation on the file raises: none.
NoRaise == [py |-> {}, js |-> {}, sec |-> {}, perf |-> {}]

\* An AST node: its class, line, and children in ast.iter_child_nodes
\* order.  A FunctionDef also has its end line and parameter count, a
\* BoolOp its operator and number of operands (the operands themselves,
\* plain names, are left out).
Node(t, l, ch) ==
  [type |-> t, line |-> l, end |-> l, params |-> 0, op |-> "",
   operands |-> 0, children |-> ch]
FunctionDef(l, e, np, ch) ==
  [Node("FunctionDef", l, ch) EXCEPT !.end = e, !.params = np]
BoolOp(o, n, l) == [Node("BoolOp", l, <<>>) EXCEPT !.op = o, !.operands = n]

\* isinstance(inner_node, (ast.If, ast.While, ast.For, ast.Try, ast.AsyncFor))
BranchTypes == {"If", "While", "For", "Try", "AsyncFor"}
\* isinstance(node, (ast.If, ast.For, ast.While, ast.With, ast.Try,
\*                   ast.AsyncFor, ast.AsyncWith))
ControlTypes == {"If", "For", "While", "With", "Try", "AsyncFor", "AsyncWith"}

\* What one node of ast.walk(node) adds to the complexity counter.
ComplexityStep(node) ==
  IF node.type \in BranchTypes THEN 1
  ELSE IF node.type = "BoolOp" /\ node.op = "And" THEN node.operands - 1
  ELSE 0

\* The sum of ComplexityStep over the first k nodes and all below them.
RECURSIVE WalkComplexity(_, _)
WalkComplexity(nodes, k) ==
  IF k = 0 THEN 0
  ELSE WalkComplexity(nodes, k - 1) + ComplexityStep(nodes[k])
       + WalkComplexity(nodes[k].children, Len(nodes[k].children))

\* complexity = 1, then the walk over the function node and all below it
Complexity(fn) == 1 + WalkComplexity(<<fn>>, 1)

\* _check_python_nesting over the first k nodes with the counter at depth:
\* the counter value at each control construct, in visiting order.
RECURSIVE NestingVisits(_, _, _)
NestingVisits(nodes, k, depth) ==
  IF k = 0 THEN <<>>
  ELSE LET node == nodes[k]
           d == IF node.type \in ControlTypes THEN depth + 1 ELSE depth
       IN NestingVisits(nodes, k - 1, depth)
          \o (IF node.type \in ControlTypes
              THEN <<[depth |-> d, line |-> node.line]>> ELSE <<>>)
          \o NestingVisits(node.children, Len(node.children), d)

\* ast.walk: breadth first from the nodes of the queue.
RECURSIVE AstWalk(_)
AstWalk(queue) ==
  IF queue = <<>> THEN <<>>
  ELSE <<Head(queue)>> \o AstWalk(Tail(queue) \o Head(queue).children)

\* A function as the function walk measures it: its line, parameter count,
\* line span (end_lineno - lineno + 1), complexity, and the depth counter
\* value at each control construct _check_python_nesting visits below it.
FunctionRecord(node) ==
  [line |-> node.line, params |-> node.params,
   lines |-> (node.end - node.line) + 1,
   complexity |-> Complexity(node),
   nest |-> NestingVisits(<<node>>, 1, 0),
   node |-> node]

\* The functions of a module body in the order ast.walk(tree) meets them.
WalkFunctions(body) ==
  LET fns == SelectSeq(AstWalk(body), LAMBDA n : n.type = "FunctionDef")
  IN [k \in 1..Len(fns) |-> FunctionRecord(fns[k])]

\* A chain of n nested `if` statements starting at line l, the innermost
\* holding `inner`.
RECURSIVE IfChain(_, _, _)
IfChain(n, l, inner) ==
  IF n = 0 THEN inner ELSE <<Node("If", l, IfChain(n - 1, l + 1, inner))>>

\* def at line 3 with 6 parameters, 51 lines, five nested ifs around an
\* `and` of six operands
FnBig == FunctionRecord(FunctionDef(3, 53, 6, IfChain(5, 4, <<BoolOp("And", 6, 9)>>)))
\* def at line 60 with 5 parameters, 50 lines, one if on an `and` of nine
FnEdge == FunctionRecord(FunctionDef(60, 109, 5, IfChain(1, 61, <<BoolOp("And", 9, 61)>>)))
\* def at line 2, 4 lines, one `and` of a thousand operands
FnHuge == FunctionRecord(FunctionDef(2, 5, 0, <<BoolOp("And", 1000, 3)>>))

\* def at line 1, 22 lines, a condition joining 17 operands with `and`
FnBranchy == FunctionRecord(FunctionDef(1, 22, 1, <<BoolOp("And", 17, 2)>>))

\* def deep at line 1: six nested ifs
DeepDef == FunctionDef(1, 9, 1, IfChain(6, 2, <<>>))
\* def outer at line 10: for > while > with > def inner (line 14) >
\* try > if, the try having an except clause
InnerDef ==
  FunctionDef(14, 18, 1,
    <<Node("Try", 15, <<Node("If", 16, <<>>), Node("ExceptHandler", 17, <<>>)>>)>>)
OuterDef ==
  FunctionDef(10, 19, 1,
    <<Node("For", 11, <<Node("While", 12, <<Node("With", 13, <<InnerDef>>)>>)>>)>>)
\* def handler at line 20: try with an except clause around an if on an
\* `or` of three operands
HandlerDef ==
  FunctionDef(20, 24, 3,
    <<Node("Try", 21, <<Node("If", 22, <<BoolOp("Or", 3, 22)>>),
                        Node("ExceptHandler", 23, <<>>)>>)>>)

BaseFile ==
  [lang |-> "Python", readable |-> TRUE,
   astFail |-> "none", failStage |-> "none", failAfter |-> 0, failNest |-> 0,
   errLine |-> 0,
   imports |-> <<>>, funcs |-> <<>>,
   pyMatch |-> NoPy, regexDeps |-> {},
   jsMatch |-> NoJs, jsDeps |-> {}, jsFuncs |-> <<>>,
   longLines |-> <<>>, lineKinds |-> <<>>,
   secMatch |-> NoSec, perfMatch |-> NoPerf, nestedLoops |-> <<>>,
   loc |-> 10, comment_lines |-> 1, avg_line_length |-> 30,
   raises |-> NoRaise,
   clean |-> <<>>]

\* The files the input may hold.
FileCatalog ==
  << \* 1: a Python file that parses and walks cleanly
     [BaseFile EXCEPT !.imports = <<"os">>, !.funcs = <<FnBig, FnEdge>>,
        !.pyMatch = [NoPy EXCEPT !.bare_except = <<12>>],
        !.regexDeps = {"os"},
        !.secMatch = [NoSec EXCEPT !.hardcoded_credentials = <<5>>,
                                   !.xss = <<6>>],
        !.perfMatch = [NoPerf EXCEPT !.inefficient_loop = <<9>>],
        !.nestedLoops = <<9>>,
        !.longLines = <<20>>,
        !.lineKinds = <<"code", "ccode", "ccode", "code">>,
        !.loc = 120, !.comment_lines = 12, !.clean = <<1, 2, 3, 4, 5>>],
     \* 2: a Python file with a syntax error
     [BaseFile EXCEPT !.astFail = "syntax", !.failStage = "parse",
        !.errLine = 4,
        !.pyMatch = [NoPy EXCEPT !.eval_usage = <<4>>, !.import_star = <<1>>],
        !.regexDeps = {"os", "sys"},
        !.longLines = <<2>>,
        !.clean = <<1, 2, 3, 4, 5, 6>>],
     \* 3: a Python file whose function walk raises AttributeError on the
     \*    second function, before anything of that function is recorded
     [BaseFile EXCEPT !.astFail = "attr", !.failStage = "functions",
        !.failAfter = 1,
        !.imports = <<"sys">>, !.funcs = <<FnBig, FnEdge>>,
        !.regexDeps = {"sys"},
        !.clean = <<1, 2, 3, 4, 5>>],
     \* 4: a Python file whose nesting check raises (RecursionError) in the
     \*    first function, after one over-deep construct was reported
     [BaseFile EXCEPT !.astFail = "other", !.failStage = "nesting",
        !.failAfter = 0, !.failNest = 5,
        !.imports = <<"re">>, !.funcs = <<FnBig>>,
        !.pyMatch = [NoPy EXCEPT !.mutable_default = <<3>>],
        !.regexDeps = {"re"},
        !.clean = <<1, 1, 1, 1, 1, 1>>],
     \* 5: a JavaScript file
     [BaseFile EXCEPT !.lang = "JavaScript",
        !.jsMatch = [NoJs EXCEPT !.var_usage = <<1, 2>>],
        !.jsDeps = {"fs"}, !.jsFuncs = <<[line |-> 10, lines |-> 60]>>,
        !.secMatch = [NoSec EXCEPT !.xss = <<3>>, !.sql_injection = <<4>>],
        !.perfMatch = [NoPerf EXCEPT !.multiple_dom_access = <<5>>],
        !.comment_lines = 0,
        !.clean = <<2, 3, 4, 5, 6>>],
     \* 6: a file whose extension maps to no language
     [BaseFile EXCEPT !.lang = "Unknown"],
     \* 7: a Python file that cannot be read or decoded
     [BaseFile EXCEPT !.readable = FALSE],
     \* 8: a very large Java file of very long lines, only short normalized lines
     [BaseFile EXCEPT !.lang = "Java", !.loc = 20000, !.comment_lines = 0,
        !.avg_line_length = 500, !.longLines = <<1, 2>>,
        !.clean = <<7, 7, 7, 7, 7, 8>>],
     \* 9: a one-line Python file holding a function of extreme complexity
     [BaseFile EXCEPT !.funcs = <<FnHuge>>, !.loc = 1, !.comment_lines = 0,
        !.avg_line_length = 200],
     \* 10: a Python file of three top-level functions, one with a nested
     \*     function
     [BaseFile EXCEPT !.funcs = WalkFunctions(<<DeepDef, OuterDef, HandlerDef>>),
        !.loc = 25, !.comment_lines = 0],
     \* 11: a Python file of comment runs: a note before one commented
     \*     statement, two commented statements, a note before two, and
     \*     two commented statements with an empty line between them
     [BaseFile EXCEPT
        !.lineKinds = <<"code", "comment", "ccode", "code", "ccode", "ccode",
                        "code", "comment", "ccode", "ccode", "code", "ccode",
                        "blank", "ccode", "code">>,
        !.loc = 16, !.comment_lines = 9, !.avg_line_length = 6],
     \* 12: a Python file of one branchy function and no comment, whose
     \*     maintainability comes just under 80
     [BaseFile EXCEPT !.funcs = <<FnBranchy>>, !.loc = 23,
        !.comment_lines = 0, !.avg_line_length = 33] >>

\* Files on which the evaluation of some rule raises (as re.finditer does
\* on a pattern that does not compile).
FaultCatalog ==
  << \* a Python file that parses; the import_star rule raises
     [BaseFile EXCEPT !.funcs = <<FnEdge>>,
        !.pyMatch = [NoPy EXCEPT !.bare_except = <<12>>, !.eval_usage = <<14>>],
        !.secMatch = [NoSec EXCEPT !.eval_input = <<14>>],
        !.raises = [NoRaise EXCEPT !.py = {"import_star"}],
        !.clean = <<1, 2, 3, 4, 5>>],
     \* a Java file; the hardcoded_credentials rule raises
     [BaseFile EXCEPT !.lang = "Java",
        !.secMatch = [NoSec EXCEPT !.xss = <<3>>],
        !.raises = [NoRaise EXCEPT !.sec = {"hardcoded_credentials", "xss"}],
        !.longLines = <<2>>,
        !.clean = <<1, 2, 3, 4, 5>>],
     \* a JavaScript file; the triple_equals rule raises
     [BaseFile EXCEPT !.lang = "JavaScript",
        !.jsMatch = [NoJs EXCEPT !.var_usage = <<1>>, !.eval_usage = <<7>>],
        !.jsDeps = {"fs"},
        !.raises = [NoRaise EXCEPT !.js = {"triple_equals"}],
        !.clean = <<2, 3, 4, 5, 6>>],
     \* a Python file with a syntax error; the mutable_default rule raises
     \* in the regex fallback; the inefficient_loop rule raises too
     [BaseFile EXCEPT !.astFail = "syntax", !.failStage = "parse",
        !.errLine = 2,
        !.pyMatch = [NoPy EXCEPT !.bare_except = <<5>>, !.eval_usage = <<6>>],
        !.regexDeps = {"os"},
        !.raises = [NoRaise EXCEPT !.py = {"mutable_default"},
                                   !.perf = {"inefficient_loop"}]] >>

NumKinds == Len(FileCatalog)
NumFaults == Len(FaultCatalog)
Kind(k) == IF k <= NumKinds THEN FileCatalog[k] ELSE FaultCatalog[k - NumKinds]

\* ------------------------------------------------------------------ state
VARIABLES
  files,               \* the input: sequence of [path, kind] (file_stats values)
  seed,                \* this process's string-hash seed
  pc,                  \* position in analyze_project
  idx,                 \* index of the file the loop is at
  code_smells,         \* results['code_smells']: path -> findings
  security_issues,     \* results['security_issues']
  performance_issues,  \* results['performance_issues']
  style_issues,        \* results['style_issues']
  dependencies,        \* results['dependencies']: path -> set of targets
  import_graph,        \* self.import_graph
  function_metrics,    \* self.function_metrics: path -> set of records
  file_metrics,        \* self.file_metrics: path -> record, or NoMetrics
  duplicated_blocks,   \* self.duplicated_blocks, in insertion order
  duplicated_code,     \* results['duplicated_code']
  complexity_metrics,  \* results['complexity_metrics'], or NoMetrics
  best_practices,      \* results['best_practices']: the languages advised on
  log,                 \* messages sent through update_progress
  trace,               \* history of the steps of this run, in order
  earlier,             \* how this run follows an earlier one, and the
                       \* results that one returned
  safety_pc,           \* position in run_safety_check
  safety_results,      \* run_safety_check: its `results` dictionary
  process,             \* run_safety_check: the scan's completed process
  vuln_idx,            \* run_safety_check: position in `for vuln in parsed_json`
  project_path,        \* RetroConsole.project_path, the directory entered
  analysis_results,    \* RetroConsole.analysis_results
  advanced_analysis_results,  \* RetroConsole.advanced_analysis_results
  extras_results,      \* RetroConsole.extras_results
  buttons,             \* whether the advanced and the extras button are enabled
  threads,             \* the worker threads: position and local variables
  reports,             \* the advanced reports generated so far
  clicks               \* how many times each analysis was started

vars == <<files, seed, pc, idx, code_smells, security_issues,
          performance_issues, style_issues, dependencies, import_graph,
          function_metrics, file_metrics, duplicated_blocks, duplicated_code,
          complexity_metrics, best_practices, log, trace, earlier,
          safety_pc, safety_results, process, vuln_idx,
          project_path, analysis_results, advanced_analysis_results,
          extras_results, buttons, threads, reports, clicks>>

\* The state of the analyzer and of its run.
analyzer == <<files, seed, pc, idx, code_smells, security_issues,
              performance_issues, style_issues, dependencies, import_graph,
              function_metrics, file_metrics, duplicated_blocks,
              duplicated_code, complexity_metrics, best_practices, log, trace,
              earlier>>

\* The state that analyze_project neither reads nor writes.
safety == <<safety_pc, safety_results, process, vuln_idx>>
app == <<project_path, analysis_results, advanced_analysis_results,
         extras_results, buttons, threads, reports, clicks>>
outside == <<safety, app>>

NoMetrics == [absent |-> TRUE]

\* A finding; `info` carries the number a description embeds (0 when none).
Finding(t, s, l) == [type |-> t, severity |-> s, line |-> l, info |-> 0]

\* An entry of the history.
Ev(o, n, r) == [op |-> o, i |-> n, outcome |-> r]

\* ------------------------------------------------------------- the input
\* The input lists: paths are numbered in order of first appearance, and a
\* path that comes again names the same file.
ExtendInput(fl) ==
  {Append(fl, fl[j]) : j \in DOMAIN fl}
  \cup {Append(fl, [path |-> Cardinality({fl[j].path : j \in DOMAIN fl}) + 1,
                    kind |-> k]) : k \in 1..NumKinds}

RECURSIVE InputsOfLen(_)
InputsOfLen(n) ==
  IF n = 0 THEN {<<>>} ELSE UNION {ExtendInput(fl) : fl \in InputsOfLen(n - 1)}

FileLists == UNION {InputsOfLen(n) : n \in 0..MaxFiles}

FileAt(i) == Kind(files[i].kind)
PathAt(i) == files[i].path

\* The input lists that may also hold files on which a rule raises.
ExtendFaultInput(fl) ==
  {Append(fl, fl[j]) : j \in DOMAIN fl}
  \cup {Append(fl, [path |-> Cardinality({fl[j].path : j \in DOMAIN fl}) + 1,
                    kind |-> k]) : k \in 1..(NumKinds + NumFaults)}

RECURSIVE FaultInputsOfLen(_)
FaultInputsOfLen(n) ==
  IF n = 0 THEN {<<>>}
  ELSE UNION {ExtendFaultInput(fl) : fl \in FaultInputsOfLen(n - 1)}

FaultFileLists == UNION {FaultInputsOfLen(n) : n \in 0..MaxFiles}

\* The analyzer as __init__ leaves it, at the start of analyze_project.
Constructed ==
  /\ seed \in Seeds
  /\ pc = "loop"
  /\ idx = 1
  /\ code_smells = [p \in PathIds |-> <<>>]
  /\ security_issues = [p \in PathIds |-> <<>>]
  /\ performance_issues = [p \in PathIds |-> <<>>]
  /\ style_issues = [p \in PathIds |-> <<>>]
  /\ dependencies = [p \in PathIds |-> {}]
  /\ import_graph = [p \in PathIds |-> {}]
  /\ function_metrics = [p \in PathIds |-> {}]
  /\ file_metrics = [p \in PathIds |-> NoMetrics]
  /\ duplicated_blocks = <<>>
  /\ duplicated_code = <<>>
  /\ complexity_metrics = NoMetrics
  /\ best_practices = {}
  /\ log = <<[msg |-> "start", file |-> 0]>>
  /\ trace = <<>>
  /\ earlier = [mode |-> "first"]

\* run_safety_check at its call: the dictionary its first statement builds.
NoProcess == [absent |-> TRUE]
SafetyStart ==
  /\ safety_pc = "start"
  /\ safety_results = [vulnerabilities |-> <<>>, error |-> "None",
                       checked_file |-> "None", safety_version |-> "None",
                       status |-> "Not Run"]
  /\ process = NoProcess
  /\ vuln_idx = 0

\* The application window as __init__ leaves it.
None == [absent |-> TRUE]
Idle == [pc |-> "idle"]
AppStart ==
  /\ project_path = ""
  /\ analysis_results = None
  /\ advanced_analysis_results = None
  /\ extras_results = None
  /\ buttons = [advanced |-> FALSE, extras |-> FALSE]
  /\ threads = [basic |-> Idle, advanced |-> Idle, extras |-> Idle]
  /\ reports = <<>>
  /\ clicks = [basic |-> 0, advanced |-> 0, extras |-> 0]

Init == files \in FileLists /\ Constructed /\ SafetyStart /\ AppStart

\* The start of a run whose rule tables may fail on some files.
InitRules ==
  files \in FaultFileLists /\ Constructed /\ SafetyStart /\ AppStart

results == <<code_smells, security_issues, performance_issues, style_issues,
             dependencies, import_graph, function_metrics, file_metrics,
             duplicated_blocks, duplicated_code, complexity_metrics,
             best_practices>>

\* --------------------------------------------------------- the file loop
\* (mutant) the loop stops one file early.
FilesDone_early == idx >= Len(files)

\* for file_path in files_to_analyze: the loop is over when idx passes the end.
FilesDone == idx > Len(files)

\* (mutant) the exception of a file leaves analyze_project.
ExceptNextPc_raise == "raised"

\* What the except clause around the per-file pass leads to: the message is
\* logged and the loop goes on with the next file.
ExceptNextPc == "loop"

\* if language != "Unknown" fails: nothing is done for the file.
SkipUnknown ==
  /\ UNCHANGED <<earlier, outside>>
  /\ pc = "loop" /\ ~FilesDone
  /\ FileAt(idx).lang = "Unknown"
  /\ idx' = idx + 1
  /\ trace' = Append(trace, Ev("skip", idx, ""))
  /\ UNCHANGED <<files, seed, pc, log>>
  /\ UNCHANGED results

\* open / read / chardet / decode raises: caught by the loop's except.
ReadFails ==
  /\ UNCHANGED <<earlier, outside>>
  /\ pc = "loop" /\ ~FilesDone
  /\ FileAt(idx).lang # "Unknown"
  /\ ~FileAt(idx).readable
  /\ log' = log \o <<[msg |-> "analyzing", file |-> idx],
                     [msg |-> "error", file |-> idx]>>
  /\ trace' = trace \o <<Ev("read", idx, "raised"), Ev("failed", idx, "")>>
  /\ pc' = ExceptNextPc
  /\ idx' = idx + 1
  /\ UNCHANGED <<files, seed>>
  /\ UNCHANGED results

\* The content is read and decoded; the language picks the next step.
ReadOk ==
  /\ UNCHANGED <<earlier, outside>>
  /\ pc = "loop" /\ ~FilesDone
  /\ FileAt(idx).lang # "Unknown"
  /\ FileAt(idx).readable
  /\ log' = Append(log, [msg |-> "analyzing", file |-> idx])
  /\ trace' = Append(trace, Ev("read", idx, "ok"))
  /\ pc' = IF FileAt(idx).lang = "Python" THEN "python"
           ELSE IF FileAt(idx).lang \in {"JavaScript", "TypeScript"} THEN "js"
           ELSE "generic"
  /\ UNCHANGED <<files, seed, idx>>
  /\ UNCHANGED results


\* -------------------------------------------------------- regex sweeps
\* One finding per match of one rule, in match order.
MatchFindings(name, severity, lines) ==
  [k \in 1..Len(lines) |-> Finding(name, severity, lines[k])]

\* for name, data in table.items(): for match in re.finditer(...): append.
\* `use` is the set of rules that the language filter lets through.
RECURSIVE SweepRules(_, _, _, _, _)
SweepRules(order, sevOf, match, use, k) ==
  IF k > Len(order) THEN <<>>
  ELSE (IF order[k] \in use
        THEN MatchFindings(order[k], sevOf[order[k]], match[order[k]])
        ELSE <<>>)
       \o SweepRules(order, sevOf, match, use, k + 1)

\* The position of the first evaluated rule that raises, 0 if none does.
FirstRaising(order, use, bad) ==
  LET ks == {k \in 1..Len(order) : order[k] \in use \cap bad}
  IN IF ks = {} THEN 0 ELSE CHOOSE k \in ks : \A j \in ks : k <= j

\* The rules a loop without a handler evaluates to the end: all of those
\* in use, or those before the first one that raises.
Evaluated(order, use, bad) ==
  IF FirstRaising(order, use, bad) = 0 THEN use
  ELSE use \cap {order[j] : j \in 1..(FirstRaising(order, use, bad) - 1)}

\* _analyze_python_with_regex: the loop has no handler.
PythonRegexFindings(f) ==
  SweepRules(PyRuleOrder, PYTHON_ANTI_PATTERNS, f.pyMatch,
             Evaluated(PyRuleOrder, DOMAIN PYTHON_ANTI_PATTERNS, f.raises.py), 1)
PythonRegexRaises(f) ==
  FirstRaising(PyRuleOrder, DOMAIN PYTHON_ANTI_PATTERNS, f.raises.py) # 0

\* _apply_regex_patterns: each rule is evaluated in a try of its own; a rule
\* that raises is logged and the loop goes on with the next rule.
ApplyRegexPatterns(f) ==
  SweepRules(PyRuleOrder, PYTHON_ANTI_PATTERNS, f.pyMatch,
             DOMAIN PYTHON_ANTI_PATTERNS \ f.raises.py, 1)
RegexErrors(f, i) ==
  LET bad == SelectSeq(PyRuleOrder, LAMBDA r : r \in f.raises.py)
  IN [k \in 1..Len(bad) |-> [msg |-> "regex error", file |-> i]]

\* ------------------------------------------ Python structural analysis
\* How many import statements the import walk records before it ends.
ImportsRecorded(f) ==
  IF f.astFail = "none" THEN Len(f.imports)
  ELSE IF f.failStage = "parse" THEN 0
  ELSE IF f.failStage = "imports" THEN f.failAfter
  ELSE Len(f.imports)

\* How many functions the function walk stores metrics for before it ends.
FunctionsRecorded(f) ==
  IF f.astFail = "none" THEN Len(f.funcs)
  ELSE IF f.failStage \in {"parse", "imports"} THEN 0
  ELSE IF f.failStage = "functions" THEN f.failAfter
  ELSE f.failAfter + 1

\* (mutant) the parameter threshold is met at 5 already.
TooManyParams_ge(fn) == fn.params >= 5

\* The thresholds of the function-level smells.
TooManyParams(fn) == fn.params > 5
LongFunction(fn) == fn.lines > 50
HighComplexity(fn) == fn.complexity > 10

FunctionSmells(fn) ==
  (IF TooManyParams(fn)
   THEN <<Finding("too_many_parameters", "medium", fn.line)>> ELSE <<>>)
  \o (IF LongFunction(fn)
      THEN <<Finding("long_function", "medium", fn.line)>> ELSE <<>>)
  \o (IF HighComplexity(fn)
      THEN <<Finding("high_complexity", "medium", fn.line)>> ELSE <<>>)

\* _check_python_nesting over the first n control constructs of a function:
\* one finding for each whose depth counter is over 4.
RECURSIVE CheckPythonNesting(_, _)
CheckPythonNesting(nest, n) ==
  IF n = 0 THEN <<>>
  ELSE CheckPythonNesting(nest, n - 1)
       \o (IF nest[n].depth > 4
           THEN <<Finding("deep_nesting", "high", nest[n].line)>> ELSE <<>>)

\* The code-smell findings the function walk appends before it ends.
RECURSIVE WalkSmells(_, _)
WalkSmells(f, j) ==
  IF j = 0 THEN <<>>
  ELSE WalkSmells(f, j - 1)
       \o FunctionSmells(f.funcs[j])
       \o CheckPythonNesting(f.funcs[j].nest,
            IF f.astFail # "none" /\ f.failStage = "nesting"
               /\ j = f.failAfter + 1
            THEN f.failNest ELSE Len(f.funcs[j].nest))

FunctionMetric(fn) ==
  [line |-> fn.line, params |-> fn.params, lines |-> fn.lines,
   complexity |-> fn.complexity]

WalkMetrics(f) ==
  {FunctionMetric(f.funcs[j]) : j \in 1..FunctionsRecorded(f)}

WalkImports(f) == {f.imports[j] : j \in 1..ImportsRecorded(f)}

\* (mutant) every failure is reported as the catch-all clause reports it.
FailureFinding_catchall(exc, lineno) ==
  Finding("ast_processing_error", "error", 1)

\* The style finding each except clause of _analyze_python_file appends.
FailureFinding(exc, lineno) ==
  CASE exc = "syntax" -> Finding("syntax_error", "warning", lineno)
    [] exc = "attr" -> Finding("ast_feature_error", "warning", 1)
    [] OTHER -> Finding("ast_processing_error", "error", 1)

\* (mutant) without the catch-all clause an unexpected error leaves
\* _analyze_python_file and ends the file's pass at the loop's except.
PcAfterPython_nocatch(exc) == IF exc = "other" THEN "raise" ELSE "generic"

\* Every except clause of _analyze_python_file returns normally, so the
\* per-file pass goes on with the generic sweep whatever the outcome.
PcAfterPython(exc) == "generic"

AnalyzePythonFile ==
  /\ UNCHANGED <<earlier, outside>>
  /\ pc = "python"
  /\ LET f == FileAt(idx)
         p == PathAt(idx)
     IN /\ import_graph' = [import_graph EXCEPT ![p] = @ \cup WalkImports(f)]
        /\ function_metrics' =
             [function_metrics EXCEPT ![p] = @ \cup WalkMetrics(f)]
        /\ IF f.astFail = "none"
           THEN /\ code_smells' =
                     [code_smells EXCEPT
                        ![p] = @ \o WalkSmells(f, FunctionsRecorded(f))
                                 \o ApplyRegexPatterns(f)]
                /\ dependencies' =
                     [dependencies EXCEPT ![p] = @ \cup WalkImports(f)]
                /\ log' = log \o RegexErrors(f, idx)
                /\ trace' = Append(trace, Ev("structural", idx, f.astFail))
                /\ UNCHANGED style_issues
           ELSE \* the regex fallback, _analyze_python_with_regex
                /\ code_smells' =
                     [code_smells EXCEPT
                        ![p] = @ \o WalkSmells(f, FunctionsRecorded(f))
                                 \o PythonRegexFindings(f)]
                /\ dependencies' =
                     [dependencies EXCEPT
                        ![p] = @ \cup WalkImports(f)
                                 \cup (IF PythonRegexRaises(f) THEN {}
                                       ELSE f.regexDeps)]
                /\ style_issues' =
                     [style_issues EXCEPT
                        ![p] = Append(@, FailureFinding(f.astFail, f.errLine))]
                /\ log' = Append(log, [msg |-> f.astFail, file |-> idx])
                           \o (IF PythonRegexRaises(f)
                               THEN <<[msg |-> "error", file |-> idx]>>
                               ELSE <<>>)
                /\ trace' = Append(trace, Ev("structural", idx, f.astFail))
                            \o (IF PythonRegexRaises(f)
                                THEN <<Ev("failed", idx, "")>> ELSE <<>>)
        /\ IF /\ PcAfterPython(f.astFail) = "generic"
              /\ ~(f.astFail # "none" /\ PythonRegexRaises(f))
           THEN pc' = "generic" /\ idx' = idx
           ELSE pc' = ExceptNextPc /\ idx' = idx + 1
  /\ UNCHANGED <<files, seed, security_issues, performance_issues,
                 file_metrics, duplicated_blocks, duplicated_code,
                 complexity_metrics, best_practices>>

\* -------------------------------------------------- JavaScript analysis
\* `for match in matches:` iterates the iterator left by the anti-pattern
\* loop above it, which that loop has consumed: no function is visited.
JsFunctionLoop(f) == <<>>

JsLongFunctions(fs) ==
  LET long == SelectSeq(fs, LAMBDA fn : fn.lines > 50)
  IN [k \in 1..Len(long) |-> Finding("long_function", "medium", long[k].line)]

AnalyzeJsFile ==
  /\ UNCHANGED <<earlier, outside>>
  /\ pc = "js"
  /\ LET f == FileAt(idx)
         p == PathAt(idx)
         raised == FirstRaising(JsRuleOrder, DOMAIN JS_ANTI_PATTERNS,
                                f.raises.js) # 0
     IN /\ code_smells' =
             [code_smells EXCEPT
                ![p] = @ \o SweepRules(JsRuleOrder, JS_ANTI_PATTERNS, f.jsMatch,
                                       Evaluated(JsRuleOrder,
                                                 DOMAIN JS_ANTI_PATTERNS,
                                                 f.raises.js), 1)
                         \o (IF raised THEN <<>>
                             ELSE JsLongFunctions(JsFunctionLoop(f)))]
        /\ dependencies' =
             [dependencies EXCEPT
                ![p] = @ \cup (IF raised THEN {} ELSE f.jsDeps)]
        /\ IF raised
           THEN /\ trace' = trace \o <<Ev("structural", idx, "raised"),
                                        Ev("failed", idx, "")>>
                /\ log' = Append(log, [msg |-> "error", file |-> idx])
                /\ pc' = ExceptNextPc
                /\ idx' = idx + 1
           ELSE /\ trace' = Append(trace, Ev("structural", idx, "js"))
                /\ pc' = "generic"
                /\ UNCHANGED <<idx, log>>
  /\ UNCHANGED <<files, seed, security_issues, performance_issues,
                 style_issues, import_graph, function_metrics, file_metrics,
                 duplicated_blocks, duplicated_code, complexity_metrics,
                 best_practices>>


\* ------------------------------------------------------ generic analysis
\* The language filter of the security and performance sweeps.
Applicable(data, language) ==
  "all" \in data.languages \/ Lower(language) \in data.languages

SecuritySeverity ==
  [n \in DOMAIN SECURITY_VULNERABILITIES |-> SECURITY_VULNERABILITIES[n].severity]
PerformanceSeverity ==
  [n \in DOMAIN PERFORMANCE_ISSUES |-> PERFORMANCE_ISSUES[n].severity]

\* The rules each sweep of _analyze_generic passes to re.finditer.
SecurityRulesUsed(f) ==
  {n \in DOMAIN SECURITY_VULNERABILITIES :
     Applicable(SECURITY_VULNERABILITIES[n], f.lang)}
PerformanceRulesUsed(f) ==
  {n \in DOMAIN PERFORMANCE_ISSUES :
     /\ Applicable(PERFORMANCE_ISSUES[n], f.lang)
     /\ PERFORMANCE_ISSUES[n].regex}
SecurityRaises(f) ==
  FirstRaising(SecRuleOrder, SecurityRulesUsed(f), f.raises.sec) # 0
PerformanceRaises(f) ==
  FirstRaising(PerfRuleOrder, PerformanceRulesUsed(f), f.raises.perf) # 0

SecurityFindings(f) ==
  SweepRules(SecRuleOrder, SecuritySeverity, f.secMatch,
             Evaluated(SecRuleOrder, SecurityRulesUsed(f), f.raises.sec), 1)

\* Only the rules that carry a regex are matched inside the loop.
PerformanceFindings(f) ==
  SweepRules(PerfRuleOrder, PerformanceSeverity, f.perfMatch,
             Evaluated(PerfRuleOrder, PerformanceRulesUsed(f), f.raises.perf), 1)

\* The scan for commented-out code over the lines from i on.  A line is
\* "blank", "code", "comment" (a comment no code indicator matches) or
\* "ccode" (a comment some indicator matches); lines past the end of
\* lineKinds are code.  Empty lines are passed over, a comment line joins
\* current_block only if an indicator matches, a code line closes the
\* block, and a block is kept if it has more than one line.
RECURSIVE ScanComments(_, _, _, _)
ScanComments(kinds, i, current_block, commented_code_lines) ==
  LET kept == IF Len(current_block) > 1
              THEN Append(commented_code_lines, current_block)
              ELSE commented_code_lines
  IN IF i > Len(kinds) THEN kept
     ELSE IF kinds[i] = "blank"
          THEN ScanComments(kinds, i + 1, current_block, commented_code_lines)
     ELSE IF kinds[i] = "ccode"
          THEN ScanComments(kinds, i + 1, Append(current_block, i),
                            commented_code_lines)
     ELSE IF kinds[i] = "comment"
          THEN ScanComments(kinds, i + 1, current_block, commented_code_lines)
     ELSE ScanComments(kinds, i + 1, <<>>, kept)

\* One commented_code finding per kept block, at the block's first line.
CommentedCodeFindings(f) ==
  LET blocks == ScanComments(f.lineKinds, 1, <<>>, <<>>)
  IN [k \in 1..Len(blocks) |-> Finding("commented_code", "low", blocks[k][1])]

\* The nested-loop search stands after the loop and tests the loop variable,
\* which then holds the last rule name of the table.
NestedLoopFindings(f) ==
  IF PerfRuleOrder[Len(PerfRuleOrder)] = "nested_loops"
  THEN MatchFindings("nested_loops", "high", f.nestedLoops)
  ELSE <<>>

FileMetric(f) ==
  [loc |-> f.loc, comment_lines |-> f.comment_lines,
   avg_line_length |-> f.avg_line_length]

\* _analyze_generic (the token statistics, which no other step reads, are
\* left out of the state).
AnalyzeGeneric ==
  /\ UNCHANGED <<earlier, outside>>
  /\ pc = "generic"
  /\ LET f == FileAt(idx)
         p == PathAt(idx)
     IN /\ style_issues' =
             [style_issues EXCEPT
                ![p] = @ \o MatchFindings("long_line", "low", f.longLines)]
        /\ code_smells' =
             [code_smells EXCEPT
                ![p] = @ \o CommentedCodeFindings(f)]
        /\ security_issues' =
             [security_issues EXCEPT ![p] = @ \o SecurityFindings(f)]
        /\ performance_issues' =
             [performance_issues EXCEPT
                ![p] = @ \o (IF SecurityRaises(f) THEN <<>>
                             ELSE PerformanceFindings(f)
                                  \o (IF PerformanceRaises(f) THEN <<>>
                                      ELSE NestedLoopFindings(f)))]
        /\ IF SecurityRaises(f) \/ PerformanceRaises(f)
           THEN \* the exception leaves _analyze_generic
                /\ trace' = trace \o <<Ev("generic", idx, "raised"),
                                        Ev("failed", idx, "")>>
                /\ log' = Append(log, [msg |-> "error", file |-> idx])
                /\ pc' = ExceptNextPc
                /\ idx' = idx + 1
                /\ UNCHANGED file_metrics
           ELSE /\ file_metrics' = [file_metrics EXCEPT ![p] = FileMetric(f)]
                /\ trace' = Append(trace, Ev("generic", idx, ""))
                /\ pc' = "dupscan"
                /\ UNCHANGED <<idx, log>>
  /\ UNCHANGED <<files, seed, dependencies, import_graph,
                 function_metrics, duplicated_blocks, duplicated_code,
                 complexity_metrics, best_practices>>

\* ------------------------------------------------- duplicate-window scan
min_block_size == 5

RECURSIVE SumLen(_, _)
SumLen(block, k) == IF k = 0 THEN 0 ELSE SumLen(block, k - 1) + LineLen(block[k])

\* len('\n'.join(lines))
BlockLen(block) ==
  IF Len(block) = 0 THEN 0 ELSE SumLen(block, Len(block)) + Len(block) - 1

\* re.search(r'[^\s\d\W]{3,}', block)
HasWord(block) == \E k \in 1..Len(block) : LineWord(block[k])

\* The windows that are hashed: not too short, not too simple.
Qualifies(block) == ~(BlockLen(block) < 100 \/ ~HasWord(block))

RECURSIVE WeightedSum(_, _)
WeightedSum(block, k) ==
  IF k = 0 THEN 0 ELSE WeightedSum(block, k - 1) + k * block[k]

\* hash(block): a seeded function of the text into a finite range.
Hash(sd, block) == (sd * block[1] + WeightedSum(block, Len(block))) % HashMod

\* The window that starts at index i (0-based) of the normalized lines.
Window(clean, i) == SubSeq(clean, i + 1, i + min_block_size)

\* (mutant) the last window of a file is not visited.
LastWindow_short(clean) == Len(clean) - min_block_size - 1

\* range(len(clean_lines) - min_block_size + 1)
LastWindow(clean) == Len(clean) - min_block_size

\* self.duplicated_blocks[block_hash].append(occurrence)
AddOccurrence(db, h, o) ==
  IF \E k \in 1..Len(db) : db[k].hash = h
  THEN [k \in 1..Len(db) |->
          IF db[k].hash = h THEN [db[k] EXCEPT !.occ = Append(@, o)] ELSE db[k]]
  ELSE Append(db, [hash |-> h, occ |-> <<o>>])

RECURSIVE ScanWindows(_, _, _, _, _)
ScanWindows(db, sd, p, clean, i) ==
  IF i > LastWindow(clean) THEN db
  ELSE LET block == Window(clean, i)
       IN ScanWindows(
            IF Qualifies(block)
            THEN AddOccurrence(db, Hash(sd, block),
                   [file |-> p, start_line |-> i + 1,
                    end_line |-> i + min_block_size, content |-> block])
            ELSE db,
            sd, p, clean, i + 1)

\* _check_duplicated_code, the last step of a file's pass.
CheckDuplicatedCode ==
  /\ UNCHANGED <<earlier, outside>>
  /\ pc = "dupscan"
  /\ duplicated_blocks' =
       ScanWindows(duplicated_blocks, seed, PathAt(idx), FileAt(idx).clean, 0)
  /\ trace' = Append(trace, Ev("dupscan", idx, ""))
  /\ pc' = "loop"
  /\ idx' = idx + 1
  /\ UNCHANGED <<files, seed, code_smells, security_issues,
                 performance_issues, style_issues, dependencies, import_graph,
                 function_metrics, file_metrics, duplicated_code,
                 complexity_metrics, best_practices, log>>


\* --------------------------------------------- duplicate-group reduction
min_block_size_report == 5

\* len(occurrences) > 1
MultipleOccurrences(occ) == Len(occ) > 1

\* len(locations_for_report) > 1
Reportable(locs) == Len(locs) > 1

\* (mutant) no location is ever taken as already reported.
AlreadyReported_never(t, reported) == FALSE

\* Whether a location is left out as already reported.
AlreadyReported(t, reported) == t \in reported

\* for occ in occurrences: keep the locations not yet in reported_locations,
\* adding each to the set as it is kept.
RECURSIVE ReportLocations(_, _, _, _)
ReportLocations(occ, k, reported, locs) ==
  IF k > Len(occ) THEN [locs |-> locs, reported |-> reported]
  ELSE LET t == <<occ[k].file, occ[k].start_line>>
       IN IF AlreadyReported(t, reported)
          THEN ReportLocations(occ, k + 1, reported, locs)
          ELSE ReportLocations(occ, k + 1, reported \cup {t},
                 Append(locs, [file_path |-> occ[k].file,
                               start_line |-> occ[k].start_line,
                               end_line |-> occ[k].end_line]))

RECURSIVE SumTok(_, _)
SumTok(block, k) == IF k = 0 THEN 0 ELSE SumTok(block, k - 1) + LineTok(block[k])

\* content_sample[:300] + ('...' if len(content_sample) > 300 else '')
Snippet(content) == [text |-> content, cut |-> BlockLen(content) > 300]

ReportBlock(occ, locs) ==
  [lines |-> occ[1].end_line - occ[1].start_line + 1,
   tokens |-> SumTok(occ[1].content, Len(occ[1].content)),
   files |-> locs,
   code_snippet |-> Snippet(occ[1].content)]

\* (mutant) a file gets a finding for each of its locations.
Smelled_never(path, smelled) == FALSE

\* Whether a file of the group has had its finding for this group.
Smelled(path, smelled) == path \in smelled

\* (mutant) the reduction starts the findings of every file afresh.
SmellsForBlock_reset(cs, locs, k, smelled) == [p \in PathIds |-> <<>>]

\* One duplicate_code finding per file of the group, at the file's first
\* location in it.
RECURSIVE SmellsForBlock(_, _, _, _)
SmellsForBlock(cs, locs, k, smelled) ==
  IF k > Len(locs) THEN cs
  ELSE IF Smelled(locs[k].file_path, smelled)
       THEN SmellsForBlock(cs, locs, k + 1, smelled)
       ELSE SmellsForBlock(
              [cs EXCEPT ![locs[k].file_path] =
                 Append(@, [type |-> "duplicate_code", severity |-> "high",
                            line |-> locs[k].start_line, info |-> Len(locs)])],
              locs, k + 1, smelled \cup {locs[k].file_path})

\* for block_hash, occurrences in self.duplicated_blocks.items(): ...
RECURSIVE FoldBlocks(_, _, _)
FoldBlocks(db, k, acc) ==
  IF k > Len(db) THEN acc
  ELSE LET occ == db[k].occ
       IN IF ~MultipleOccurrences(occ)
          THEN FoldBlocks(db, k + 1, acc)
          ELSE IF occ[1].end_line - occ[1].start_line + 1 < min_block_size_report
          THEN FoldBlocks(db, k + 1, acc)
          ELSE LET r == ReportLocations(occ, 1, acc.reported, <<>>)
               IN IF Reportable(r.locs)
                  THEN FoldBlocks(db, k + 1,
                         [final |-> Append(acc.final, ReportBlock(occ, r.locs)),
                          reported |-> r.reported,
                          smells |-> SmellsForBlock(acc.smells, r.locs, 1, {})])
                  ELSE FoldBlocks(db, k + 1, [acc EXCEPT !.reported = r.reported])

\* key=lambda x: (x['lines'], x['tokens'])
KeyLess(a, b) ==
  a.lines < b.lines \/ (a.lines = b.lines /\ a.tokens < b.tokens)

\* list.sort(..., reverse=True): descending and stable.
InsertDescending(sorted, x) ==
  LET before == {k \in 1..Len(sorted) : KeyLess(sorted[k], x)}
      at == IF before = {} THEN Len(sorted) + 1
            ELSE CHOOSE k \in before : \A m \in before : k <= m
  IN SubSeq(sorted, 1, at - 1) \o <<x>> \o SubSeq(sorted, at, Len(sorted))

RECURSIVE SortDuplicates(_, _)
SortDuplicates(final, n) ==
  IF n = 0 THEN <<>>
  ELSE InsertDescending(SortDuplicates(final, n - 1), final[n])

\* The reductions start when the loop over the files is over:
\* _analyze_dependencies (which does nothing), then _analyze_duplicated_code.
AnalyzeDuplicatedCode ==
  /\ UNCHANGED <<earlier, outside>>
  /\ pc = "loop" /\ FilesDone
  /\ LET acc == FoldBlocks(duplicated_blocks, 1,
                  [final |-> <<>>, reported |-> {}, smells |-> code_smells])
     IN /\ code_smells' = acc.smells
        /\ duplicated_code' = SortDuplicates(acc.final, Len(acc.final))
  /\ trace' = Append(trace, Ev("duplicates", 0, ""))
  /\ pc' = "practices"
  /\ UNCHANGED <<files, seed, idx, security_issues, performance_issues,
                 style_issues, dependencies, import_graph, function_metrics,
                 file_metrics, duplicated_blocks, complexity_metrics,
                 best_practices, log>>

\* ------------------------------------------------------- best practices
BEST_PRACTICES == {"python", "javascript", "java"}

IdentifyBestPractices ==
  /\ UNCHANGED <<earlier, outside>>
  /\ pc = "practices"
  /\ best_practices' =
       {Lower(FileAt(i).lang) : i \in {j \in 1..Len(files) :
                                         FileAt(j).lang # "Unknown"}}
       \cap BEST_PRACTICES
  /\ trace' = Append(trace, Ev("practices", 0, ""))
  /\ pc' = "metrics"
  /\ UNCHANGED <<files, seed, idx, log>>
  /\ UNCHANGED <<code_smells, security_issues, performance_issues,
                 style_issues, dependencies, import_graph, function_metrics,
                 file_metrics, duplicated_blocks, duplicated_code,
                 complexity_metrics>>


\* ------------------------------------------------------ project metrics
\* Numbers that are fractions in the source are kept in fixed point, each
\* quotient truncated: densities in thousandths, averages and the
\* maintainability index in hundredths, hours in halves, days in tenths.
Absent(r) == "absent" \in DOMAIN r

RECURSIVE SumFn(_, _)
SumFn(fn, S) ==
  IF S = {} THEN 0
  ELSE LET x == CHOOSE y \in S : TRUE IN fn[x] + SumFn(fn, S \ {x})

RECURSIVE CountAll(_, _)
CountAll(byPath, S) ==
  IF S = {} THEN 0
  ELSE LET x == CHOOSE y \in S : TRUE
       IN Len(byPath[x]) + CountAll(byPath, S \ {x})

\* floor(a * n / d), computed without forming a * n
MulDiv(a, n, d) == a * (n \div d) + (a * (n % d)) \div d

MetricPaths == {p \in PathIds : ~Absent(file_metrics[p])}

total_loc == SumFn([p \in MetricPaths |-> file_metrics[p].loc], MetricPaths)
total_comment_lines ==
  SumFn([p \in MetricPaths |-> file_metrics[p].comment_lines], MetricPaths)
WeightedLineLength ==
  SumFn([p \in MetricPaths |->
           file_metrics[p].avg_line_length * file_metrics[p].loc], MetricPaths)

avg_comment_density ==
  IF total_loc > 0 THEN MulDiv(1000, total_comment_lines, total_loc) ELSE 0
avg_line_length ==
  IF total_loc > 0 THEN MulDiv(100, WeightedLineLength, total_loc) ELSE 0

all_functions ==
  UNION {{<<p, m>> : m \in function_metrics[p]} : p \in PathIds}

SumField(field) ==
  SumFn([x \in all_functions |-> x[2][field]], all_functions)

avg_function_complexity ==
  IF all_functions # {}
  THEN MulDiv(100, SumField("complexity"), Cardinality(all_functions)) ELSE 0
avg_function_size ==
  IF all_functions # {}
  THEN MulDiv(100, SumField("lines"), Cardinality(all_functions)) ELSE 0
avg_function_params ==
  IF all_functions # {}
  THEN MulDiv(100, SumField("params"), Cardinality(all_functions)) ELSE 0

\* 171 - 5.2 * (v - 1) - 0.23 * g - 16.2 * (l / 1000) + 50 * cm, in hundredths
maintainability ==
  17100
  - (IF all_functions # {}
     THEN MulDiv(520, SumField("complexity") - Cardinality(all_functions),
                 Cardinality(all_functions))
     ELSE 0 - 520)
  - (IF total_loc > 0 THEN MulDiv(23, WeightedLineLength, total_loc) ELSE 0)
  - MulDiv(162, total_loc, 100)
  + (IF total_loc > 0 THEN MulDiv(5000, total_comment_lines, total_loc) ELSE 0)

Smaller(a, b) == IF a < b THEN a ELSE b
Larger(a, b) == IF a > b THEN a ELSE b

\* (mutant) the lower clamp is missing.
Clamp_nofloor(m) == Smaller(10000, m)

\* min(100, max(0, maintainability))
Clamp(m) == Smaller(10000, Larger(0, m))

Rating(rating_value) ==
  IF rating_value >= 8000 THEN "Excellent"
  ELSE IF rating_value >= 6000 THEN "Good"
  ELSE IF rating_value >= 4000 THEN "Fair"
  ELSE IF rating_value >= 2000 THEN "Poor"
  ELSE "Very Poor"

\* issue_weights.get(severity, default)
IssueWeight(severity, default) ==
  CASE severity = "critical" -> 8
    [] severity = "high" -> 4
    [] severity = "medium" -> 2
    [] severity = "low" -> 1
    [] OTHER -> default

RECURSIVE SumWeights(_, _, _)
SumWeights(issues, default, k) ==
  IF k = 0 THEN 0
  ELSE SumWeights(issues, default, k - 1)
       + IssueWeight(issues[k].severity, default)

CategoryWeight(byPath, default) ==
  SumFn([p \in PathIds |-> SumWeights(byPath[p], default, Len(byPath[p]))],
        PathIds)

\* The categories whose findings count towards the debt, in half hours:
\* code smells, security issues at 1.5 times their weight, performance
\* issues, and 3 hours per duplicate group.
total_debt_hours ==
  2 * CategoryWeight(code_smells, 2)
  + 3 * CategoryWeight(security_issues, 4)
  + 2 * CategoryWeight(performance_issues, 2)
  + 2 * 3 * Len(duplicated_code)

\* round(n / d) as Python rounds: to nearest, ties to even.
RoundHalfEven(n, d) ==
  LET q == n \div d
      r == n % d
  IN IF 2 * r < d THEN q
     ELSE IF 2 * r > d THEN q + 1
     ELSE IF q % 2 = 0 THEN q ELSE q + 1

\* round(total_debt_hours / 8, 1), in tenths of a day, from half hours
DebtDays(hours2) == RoundHalfEven(10 * hours2, 16)

\* if not self.file_metrics: return
NoFileMetrics == MetricPaths = {}

ProjectMetrics ==
  [total_lines_of_code |-> total_loc,
   total_comment_lines |-> total_comment_lines,
   comment_density |-> avg_comment_density,
   avg_line_length |-> avg_line_length,
   code_smell_count |-> CountAll(code_smells, PathIds),
   security_issue_count |-> CountAll(security_issues, PathIds),
   performance_issue_count |-> CountAll(performance_issues, PathIds),
   style_issue_count |-> CountAll(style_issues, PathIds),
   avg_function_complexity |-> avg_function_complexity,
   avg_function_size |-> avg_function_size,
   avg_function_params |-> avg_function_params,
   duplicated_code_blocks |-> Len(duplicated_code),
   maintainability_index |-> Clamp(maintainability),
   maintainability_rating |-> Rating(Clamp(maintainability)),
   technical_debt_hours |-> total_debt_hours,
   technical_debt_days |-> DebtDays(total_debt_hours)]

CalculateProjectMetrics ==
  /\ UNCHANGED <<earlier, outside>>
  /\ pc = "metrics"
  /\ complexity_metrics' =
       IF NoFileMetrics THEN complexity_metrics ELSE ProjectMetrics
  /\ trace' = Append(trace, Ev("metrics", 0, ""))
  /\ pc' = "return"
  /\ UNCHANGED <<files, seed, idx, log, best_practices>>
  /\ UNCHANGED <<code_smells, security_issues, performance_issues,
                 style_issues, dependencies, import_graph, function_metrics,
                 file_metrics, duplicated_blocks, duplicated_code>>

\* The metadata is set, the completion is logged, the results are returned.
Return ==
  /\ UNCHANGED <<earlier, outside>>
  /\ pc = "return"
  /\ log' = Append(log, [msg |-> "completed", file |-> 0])
  /\ trace' = Append(trace, Ev("return", 0, ""))
  /\ pc' = "done"
  /\ UNCHANGED <<files, seed, idx>>
  /\ UNCHANGED results

\* The object analyze_project returns: self.results with the keys set in
\* __init__, analysis_metadata and import_graph (the token statistics and
\* the metadata values are left out of the state).
ReturnedObject ==
  [code_smells |-> code_smells,
   security_issues |-> security_issues,
   performance_issues |-> performance_issues,
   style_issues |-> style_issues,
   complexity_metrics |-> complexity_metrics,
   dependencies |-> dependencies,
   token_stats |-> {},
   duplicated_code |-> duplicated_code,
   best_practices |-> best_practices,
   analysis_metadata |-> [files_analyzed |-> Cardinality({files[i].path : i \in DOMAIN files})],
   import_graph |-> import_graph]

Next ==
  \/ SkipUnknown
  \/ ReadFails
  \/ ReadOk
  \/ AnalyzePythonFile
  \/ AnalyzeJsFile
  \/ AnalyzeGeneric
  \/ CheckDuplicatedCode
  \/ AnalyzeDuplicatedCode
  \/ IdentifyBestPractices
  \/ CalculateProjectMetrics
  \/ Return

Spec == Init /\ [][Next]_vars

SpecRules == InitRules /\ [][Next]_vars

\* ------------------------------------------------------------ a second run
\* What a finished run hands over for comparison with the next one.
Snapshot(mode) ==
  [mode |-> mode,
   code_smells |-> code_smells,
   security_issues |-> security_issues,
   performance_issues |-> performance_issues,
   style_issues |-> style_issues,
   function_metrics |-> function_metrics,
   duplicated_code |-> duplicated_code,
   complexity_metrics |-> complexity_metrics]

\* analyze_project is called again on the same analyzer with the same
\* file_stats: nothing of the object is reset but analyzed_files.
AnalyzeAgain ==
  /\ pc = "done" /\ earlier.mode = "first"
  /\ earlier' = Snapshot("same")
  /\ pc' = "loop"
  /\ idx' = 1
  /\ log' = Append(log, [msg |-> "start", file |-> 0])
  /\ trace' = <<>>
  /\ UNCHANGED <<files, seed>>
  /\ UNCHANGED results
  /\ UNCHANGED outside

\* The fields of a newly constructed analyzer.
Reconstructed ==
  /\ pc' = "loop"
  /\ idx' = 1
  /\ code_smells' = [p \in PathIds |-> <<>>]
  /\ security_issues' = [p \in PathIds |-> <<>>]
  /\ performance_issues' = [p \in PathIds |-> <<>>]
  /\ style_issues' = [p \in PathIds |-> <<>>]
  /\ dependencies' = [p \in PathIds |-> {}]
  /\ import_graph' = [p \in PathIds |-> {}]
  /\ function_metrics' = [p \in PathIds |-> {}]
  /\ file_metrics' = [p \in PathIds |-> NoMetrics]
  /\ duplicated_blocks' = <<>>
  /\ duplicated_code' = <<>>
  /\ complexity_metrics' = NoMetrics
  /\ best_practices' = {}
  /\ log' = <<[msg |-> "start", file |-> 0]>>
  /\ trace' = <<>>

\* The application runs the analysis again in the same process: a new
\* AdvancedCodeAnalyzer is constructed for the same file_stats.
RunFresh ==
  /\ pc = "done" /\ earlier.mode = "first"
  /\ earlier' = Snapshot("fresh")
  /\ Reconstructed
  /\ UNCHANGED <<files, seed>>
  /\ UNCHANGED outside

\* The application is started again: a new analyzer in a new process,
\* whose string-hash seed is drawn anew.
RunNewProcess ==
  /\ pc = "done" /\ earlier.mode = "first"
  /\ earlier' = Snapshot("process")
  /\ Reconstructed
  /\ seed' \in Seeds
  /\ UNCHANGED files
  /\ UNCHANGED outside

NextRerun ==
  \/ Next
  \/ AnalyzeAgain
  \/ RunFresh
  \/ RunNewProcess

SpecRerun == Init /\ [][NextRerun]_vars


\* ======================================================================
\* The dependency scan: run_safety_check
\* ======================================================================
MaxEntries == 2

\* common_files, in the order find_requirements_file tries them.
common_files == <<"requirements.txt", "requirements.in", "pyproject.toml">>

\* find_requirements_file: the first common file the project holds, or None.
find_requirements_file(present) ==
  LET found == {k \in DOMAIN common_files : common_files[k] \in present}
  IN IF found = {} THEN "None"
     ELSE common_files[CHOOSE k \in found : \A m \in found : k <= m]

\* What an element of the scanner's JSON list may be: a row of five
\* fields, a row of three, a number (which has no len()), or an object of
\* five keys (which has no item 0).
VulnShapes == {"row5", "row3", "number", "object"}

RECURSIVE JsonLists(_)
JsonLists(n) ==
  IF n = 0 THEN {<<>>}
  ELSE LET shorter == JsonLists(n - 1)
       IN shorter \cup {Append(l, v) : l \in {x \in shorter : Len(x) = n - 1},
                                       v \in VulnShapes}

\* What the scan may leave on its standard output: nothing, a text that is
\* no JSON, a JSON number, or a JSON list.
Stdouts ==
  {[kind |-> k, items |-> <<>>] : k \in {"empty", "text", "number"}}
  \cup {[kind |-> "list", items |-> l] : l \in JsonLists(MaxEntries)}

\* json.loads(process.stdout)
json_loads(stdout) ==
  IF stdout.kind \in {"empty", "text"}
  THEN [raises |-> "JSONDecodeError", value |-> stdout]
  ELSE [raises |-> "None", value |-> stdout]

\* results['error'] = ...; results['status'] = 'Error'
Failed(res, msg) == [res EXCEPT !.error = msg, !.status = "Error"]

\* (mutant) the outer try catches the missing command only.
CaughtOuter_notFoundOnly(exc) == exc = "FileNotFoundError"

\* except FileNotFoundError: ... except Exception as e: ... -- every
\* exception of the body is caught by one of the two clauses.
CaughtOuter(exc) == TRUE

\* The outer handlers, and where the function goes from them.
OuterExcept(res, exc) ==
  IF ~CaughtOuter(exc) THEN [results |-> res, pc |-> "raised"]
  ELSE IF exc = "FileNotFoundError"
  THEN [results |-> Failed(res, "'safety' command not found"), pc |-> "returned"]
  ELSE [results |-> Failed(res, "An unexpected error occurred"), pc |-> "returned"]

\* except json.JSONDecodeError / except Exception, around the processing
\* of the output: the error and the status are set, and the entries
\* already appended to results['vulnerabilities'] stay.
InnerExcept(res, exc) ==
  Failed(res, IF exc = "JSONDecodeError"
              THEN "Failed to parse safety JSON output"
              ELSE "Unexpected error processing safety output")

\* req_path, req_filename = find_requirements_file(project_path)
SafetyLookup ==
  /\ safety_pc = "start"
  /\ \E present \in SUBSET {common_files[k] : k \in DOMAIN common_files} :
       LET req_filename == find_requirements_file(present)
       IN IF req_filename = "None"
          THEN /\ safety_results' =
                    [safety_results EXCEPT
                       !.error = "No common Python dependency file found",
                       !.status = "No File"]
               /\ safety_pc' = "returned"
          ELSE /\ safety_results' =
                    [safety_results EXCEPT !.checked_file = req_filename]
               /\ safety_pc' = "probe"
  /\ UNCHANGED <<process, vuln_idx>>
  /\ UNCHANGED <<analyzer, app>>

\* subprocess.run([sys.executable, '-m', 'safety', '--version'], ...): it
\* raises, or returns with a return code.
SafetyProbe ==
  /\ safety_pc = "probe"
  /\ \E outcome \in {"ok", "nonzero", "FileNotFoundError", "PermissionError"} :
       IF outcome = "ok"
       THEN /\ safety_results' =
                 [safety_results EXCEPT !.safety_version = "version"]
            /\ safety_pc' = "scan"
       ELSE LET exc == IF outcome = "nonzero" THEN "FileNotFoundError"
                       ELSE outcome
                h == OuterExcept(safety_results, exc)
            IN /\ safety_results' = h.results
               /\ safety_pc' = h.pc
  /\ UNCHANGED <<process, vuln_idx>>
  /\ UNCHANGED <<analyzer, app>>

\* process = subprocess.run(command, ...), and the branch on its return
\* code and output.
SafetyScan ==
  /\ safety_pc = "scan"
  /\ \/ \E exc \in {"OSError", "UnicodeDecodeError"} :
          LET h == OuterExcept(safety_results, exc)
          IN /\ safety_results' = h.results
             /\ safety_pc' = h.pc
             /\ UNCHANGED process
     \/ \E rc \in {0, 64}, out \in Stdouts :
          /\ process' = [returncode |-> rc, stdout |-> out]
          /\ IF rc = 0
             THEN /\ safety_results' = [safety_results EXCEPT !.status = "Secure"]
                  /\ safety_pc' = "returned"
             ELSE IF out.kind # "empty"
             THEN /\ safety_results' =
                       [safety_results EXCEPT !.status = "Vulnerable"]
                  /\ safety_pc' = "parse"
             ELSE /\ safety_results' =
                       Failed(safety_results, "Safety check command failed")
                  /\ safety_pc' = "returned"
  /\ UNCHANGED vuln_idx
  /\ UNCHANGED <<analyzer, app>>

\* parsed_json = json.loads(process.stdout) and the start of the loop
\* over it: a number cannot be iterated.
SafetyParse ==
  /\ safety_pc = "parse"
  /\ LET parsed == json_loads(process.stdout)
     IN IF parsed.raises # "None"
        THEN /\ safety_results' = InnerExcept(safety_results, parsed.raises)
             /\ safety_pc' = "returned"
             /\ UNCHANGED vuln_idx
        ELSE IF parsed.value.kind = "number"
        THEN /\ safety_results' = InnerExcept(safety_results, "TypeError")
             /\ safety_pc' = "returned"
             /\ UNCHANGED vuln_idx
        ELSE /\ vuln_idx' = 1
             /\ safety_pc' = IF parsed.value.items = <<>> THEN "returned"
                             ELSE "entries"
             /\ UNCHANGED safety_results
  /\ UNCHANGED process
  /\ UNCHANGED <<analyzer, app>>

\* One turn of `for vuln in parsed_json`.
SafetyEntry ==
  /\ safety_pc = "entries"
  /\ LET items == process.stdout.items
         vuln == items[vuln_idx]
         next == IF vuln_idx = Len(items) THEN "returned" ELSE "entries"
     IN CASE vuln = "row5" ->
               /\ safety_results' =
                    [safety_results EXCEPT
                       !.vulnerabilities = Append(@, [item |-> vuln_idx])]
               /\ safety_pc' = next
               /\ vuln_idx' = vuln_idx + 1
          [] vuln = "row3" ->
               /\ safety_pc' = next
               /\ vuln_idx' = vuln_idx + 1
               /\ UNCHANGED safety_results
          [] vuln = "number" ->
               /\ safety_results' = InnerExcept(safety_results, "TypeError")
               /\ safety_pc' = "returned"
               /\ UNCHANGED vuln_idx
          [] vuln = "object" ->
               /\ safety_results' = InnerExcept(safety_results, "KeyError")
               /\ safety_pc' = "returned"
               /\ UNCHANGED vuln_idx
  /\ UNCHANGED process
  /\ UNCHANGED <<analyzer, app>>

InitSafety == files = <<>> /\ Constructed /\ SafetyStart /\ AppStart

NextSafety ==
  \/ SafetyLookup
  \/ SafetyProbe
  \/ SafetyScan
  \/ SafetyParse
  \/ SafetyEntry

SpecSafety == InitSafety /\ [][NextSafety]_vars

\* ======================================================================
\* The application: the analysis buttons and their worker threads
\* ======================================================================
MaxRuns == 2

\* The project directories the user may enter.
Projects == {"A", "B"}

\* One worker of each kind runs at a time, and each analysis is started at
\* most MaxRuns times.
MayStart(kind) == threads[kind].pc = "idle" /\ clicks[kind] < MaxRuns

\* browse_project, or typing into the entry: the path changes at any time.
SetProjectPath ==
  /\ \E p \in Projects \ {project_path} : project_path' = p
  /\ UNCHANGED <<analysis_results, advanced_analysis_results, extras_results,
                 buttons, threads, reports, clicks>>
  /\ UNCHANGED <<analyzer, safety>>

\* run_analysis: the dependent buttons are disabled and the worker starts;
\* no result of an earlier run is cleared.
RunAnalysis ==
  /\ project_path \in Projects
  /\ MayStart("basic")
  /\ buttons' = [advanced |-> FALSE, extras |-> FALSE]
  /\ clicks' = [clicks EXCEPT !.basic = @ + 1]
  /\ threads' = [threads EXCEPT
                   !.basic = [pc |-> "start", run |-> clicks.basic + 1]]
  /\ UNCHANGED <<project_path, analysis_results, advanced_analysis_results,
                 extras_results, reports>>
  /\ UNCHANGED <<analyzer, safety>>

\* _run_analysis_thread: the path is read and the code files are
\* collected; with none found the thread returns.
BasicThreadCollect ==
  /\ threads.basic.pc = "start"
  /\ \E found \in BOOLEAN :
       threads' = [threads EXCEPT
                     !.basic = IF found
                               THEN [pc |-> "analyzing",
                                     run |-> threads.basic.run,
                                     project_path |-> project_path]
                               ELSE Idle]
  /\ UNCHANGED <<project_path, analysis_results, advanced_analysis_results,
                 extras_results, buttons, reports, clicks>>
  /\ UNCHANGED <<analyzer, safety>>

\* _run_analysis_thread: the results are stored and the buttons enabled,
\* or the handler clears the results and disables the buttons.
BasicThreadStore ==
  /\ threads.basic.pc = "analyzing"
  /\ \/ /\ analysis_results' = [project |-> threads.basic.project_path,
                                run |-> threads.basic.run]
        /\ buttons' = [buttons EXCEPT !.advanced = TRUE]
     \/ /\ analysis_results' = None
        /\ buttons' = [advanced |-> FALSE, extras |-> FALSE]
  /\ threads' = [threads EXCEPT !.basic = Idle]
  /\ UNCHANGED <<project_path, advanced_analysis_results, extras_results,
                 reports, clicks>>
  /\ UNCHANGED <<analyzer, safety>>

\* run_advanced_analysis
RunAdvancedAnalysis ==
  /\ buttons.advanced
  /\ ~Absent(analysis_results)
  /\ MayStart("advanced")
  /\ buttons' = [buttons EXCEPT !.extras = FALSE]
  /\ clicks' = [clicks EXCEPT !.advanced = @ + 1]
  /\ threads' = [threads EXCEPT
                   !.advanced = [pc |-> "start", id |-> clicks.advanced + 1]]
  /\ UNCHANGED <<project_path, analysis_results, advanced_analysis_results,
                 extras_results, reports>>
  /\ UNCHANGED <<analyzer, safety>>

\* _run_advanced_analysis_thread: the path is read, and a new analyzer
\* analyses self.analysis_results['file_stats']. Whether any file gave
\* metrics (`rated`) decides whether get_summary will return.
AdvancedThreadAnalyze ==
  /\ threads.advanced.pc = "start"
  /\ IF Absent(analysis_results)
     THEN threads' = [threads EXCEPT !.advanced = Idle]
     ELSE \E rated \in BOOLEAN :
            threads' =
              [threads EXCEPT
                 !.advanced =
                   [pc |-> "analyzed",
                    project_path |-> project_path,
                    advanced_results |->
                      [project |-> analysis_results.project,
                       run |-> analysis_results.run,
                       id |-> threads.advanced.id,
                       rated |-> rated]]]
  /\ UNCHANGED <<project_path, analysis_results, advanced_analysis_results,
                 extras_results, buttons, reports, clicks>>
  /\ UNCHANGED <<analyzer, safety>>

\* self.advanced_analysis_results = advanced_results, then get_summary:
\* when it raises, the handler clears the results and the thread ends.
AdvancedThreadStore ==
  /\ threads.advanced.pc = "analyzed"
  /\ IF threads.advanced.advanced_results.rated
     THEN /\ advanced_analysis_results' = threads.advanced.advanced_results
          /\ threads' = [threads EXCEPT !.advanced.pc = "report"]
          /\ UNCHANGED buttons
     ELSE /\ advanced_analysis_results' = None
          /\ threads' = [threads EXCEPT !.advanced = Idle]
          /\ buttons' = [buttons EXCEPT !.extras = FALSE]
  /\ UNCHANGED <<project_path, analysis_results, extras_results, reports,
                 clicks>>
  /\ UNCHANGED <<analyzer, safety>>

\* reporter.generate_report(project_path, self.analysis_results,
\* self.advanced_analysis_results, self.extras_results): the three
\* attributes are read when the report is made; without basic or advanced
\* results no report comes out. Then the extras button is enabled.
AdvancedThreadReport ==
  /\ threads.advanced.pc = "report"
  /\ reports' =
       IF Absent(analysis_results) \/ Absent(advanced_analysis_results)
       THEN reports
       ELSE Append(reports,
                   [project_path |-> threads.advanced.project_path,
                    basic |-> analysis_results,
                    advanced |-> advanced_analysis_results,
                    extras |-> extras_results])
  /\ buttons' = [buttons EXCEPT !.extras = TRUE]
  /\ threads' = [threads EXCEPT !.advanced = Idle]
  /\ UNCHANGED <<project_path, analysis_results, advanced_analysis_results,
                 extras_results, clicks>>
  /\ UNCHANGED <<analyzer, safety>>

\* run_project_extras
RunProjectExtras ==
  /\ buttons.extras
  /\ ~Absent(advanced_analysis_results)
  /\ MayStart("extras")
  /\ clicks' = [clicks EXCEPT !.extras = @ + 1]
  /\ threads' = [threads EXCEPT !.extras = [pc |-> "start"]]
  /\ UNCHANGED <<project_path, analysis_results, advanced_analysis_results,
                 extras_results, buttons, reports>>
  /\ UNCHANGED <<analyzer, safety>>

\* if self.extras_results is None: self.extras_results = {}
NoExtras == [dependency_scan |-> None, dependency_graph |-> None,
             error |-> FALSE]

\* _run_project_extras_thread: the scan of the directory now entered is
\* put into extras_results.
ExtrasThreadScan ==
  /\ threads.extras.pc = "start"
  /\ IF Absent(advanced_analysis_results)
     THEN /\ threads' = [threads EXCEPT !.extras = Idle]
          /\ UNCHANGED extras_results
     ELSE /\ extras_results' =
               [(IF Absent(extras_results) THEN NoExtras ELSE extras_results)
                  EXCEPT !.dependency_scan = [project |-> project_path]]
          /\ threads' = [threads EXCEPT
                           !.extras = [pc |-> "graph",
                                       project_path |-> project_path]]
  /\ UNCHANGED <<project_path, analysis_results, advanced_analysis_results,
                 buttons, reports, clicks>>
  /\ UNCHANGED <<analyzer, safety>>

\* _run_project_extras_thread: the graph is prepared from the import graph
\* of self.advanced_analysis_results as it is now; if that was cleared the
\* handler replaces extras_results by the error.
ExtrasThreadGraph ==
  /\ threads.extras.pc = "graph"
  /\ extras_results' =
       IF Absent(advanced_analysis_results)
       THEN [NoExtras EXCEPT !.error = TRUE]
       ELSE [extras_results EXCEPT
               !.dependency_graph =
                 [project |-> advanced_analysis_results.project,
                  advanced |-> advanced_analysis_results.id]]
  /\ threads' = [threads EXCEPT !.extras = Idle]
  /\ UNCHANGED <<project_path, analysis_results, advanced_analysis_results,
                 buttons, reports, clicks>>
  /\ UNCHANGED <<analyzer, safety>>

InitApp == files = <<>> /\ Constructed /\ SafetyStart /\ AppStart

NextApp ==
  \/ SetProjectPath
  \/ RunAnalysis
  \/ BasicThreadCollect
  \/ BasicThreadStore
  \/ RunAdvancedAnalysis
  \/ AdvancedThreadAnalyze
  \/ AdvancedThreadStore
  \/ AdvancedThreadReport
  \/ RunProjectExtras
  \/ ExtrasThreadScan
  \/ ExtrasThreadGraph

SpecApp == InitApp /\ [][NextApp]_vars

\* ======================================================================
\* Properties
\* ======================================================================
\* Positions of the history.
Steps == 1..Len(trace)
FileSteps(i) == {k \in Steps : trace[k].i = i}
\* The step that ends the pass of a file: its duplicate scan, the handling
\* of its exception, or its being passed over as of unknown language.
EndsPass(k) == trace[k].op \in {"dupscan", "failed", "skip"}
IsReduction(k) == trace[k].op \in {"duplicates", "practices", "metrics"}
\* The order of the steps within one file's pass.
StageRank(o) ==
  CASE o = "read" -> 1 [] o = "skip" -> 1
    [] o = "structural" -> 2
    [] o = "generic" -> 3
    [] o = "dupscan" -> 4 [] o = "failed" -> 4
    [] OTHER -> 5
Failures == {"syntax", "attr", "other"}
Done == pc = "done"
\* The run has returned, or a step of it can be taken.
GoesOn ==
  \/ Done
  \/ pc \in {"practices", "metrics", "return"}
  \/ pc = "loop" /\ FilesDone
  \/ ENABLED (SkipUnknown \/ ReadFails \/ ReadOk \/ AnalyzePythonFile
              \/ AnalyzeJsFile \/ AnalyzeGeneric \/ CheckDuplicatedCode)

\* C1: files are processed one at a time, each in the order structural
\* attempt, generic sweep, duplicate-window scan, with no step of another
\* file in between; and the reductions (_analyze_duplicated_code, then
\* _calculate_project_metrics) start only when the pass of every input
\* file has ended, completed or failed.
C1_FilesThenReductions ==
  /\ \A k, m \in Steps :
       k < m =>
         /\ (trace[k].i # 0 /\ trace[m].i # 0) => trace[k].i <= trace[m].i
         /\ (trace[k].i # 0 /\ trace[k].i = trace[m].i)
              => StageRank(trace[k].op) < StageRank(trace[m].op)
         /\ (trace[k].i # 0 /\ trace[k].i < trace[m].i)
              => \E e \in FileSteps(trace[k].i) : e < m /\ EndsPass(e)
         /\ trace[k].i = 0 => trace[m].i = 0
         /\ trace[k].op = "metrics" => trace[m].op # "duplicates"
  /\ \A k \in Steps :
       /\ trace[k].op = "generic"
            => trace[k - 1].i = trace[k].i
               /\ trace[k - 1].op \in {"read", "structural"}
       /\ trace[k].op = "dupscan"
            => trace[k - 1].i = trace[k].i /\ trace[k - 1].op = "generic"
       /\ IsReduction(k)
            => \A i \in 1..Len(files) :
                 \E e \in FileSteps(i) : e < k /\ EndsPass(e)
       /\ trace[k].op = "metrics"
            => \E d \in Steps : d < k /\ trace[d].op = "duplicates"

C1_Witness ==
  /\ Done /\ Len(files) = 2
  /\ \E k \in Steps : trace[k].op = "failed" /\ trace[k].i = 1
  /\ \E k \in Steps : trace[k].op = "structural" /\ trace[k].i = 2
  /\ \E k \in Steps : trace[k].op = "dupscan" /\ trace[k].i = 2
  /\ \E k \in Steps : trace[k].op = "metrics"

\* C2: an exception raised in the per-file pass of a file is logged through
\* the progress callback and does not abort the run: the run can always go
\* on, every later file is still processed, both reductions run, and
\* analyze_project returns.
C2_FailureIsSkipped ==
  \A k \in Steps :
    trace[k].op = "failed" =>
      /\ \E n \in 1..Len(log) :
           log[n] = [msg |-> "error", file |-> trace[k].i]
      /\ GoesOn
      /\ Done =>
           /\ \A j \in (trace[k].i + 1)..Len(files) :
                \E e \in FileSteps(j) : e > k /\ EndsPass(e)
           /\ \E d, m \in Steps :
                k < d /\ d < m /\ trace[d].op = "duplicates"
                /\ trace[m].op = "metrics"
           /\ trace[Len(trace)].op = "return"

C2_Witness ==
  /\ Done /\ Len(files) = 2
  /\ \E k \in Steps : trace[k].op = "failed" /\ trace[k].i = 1
  /\ \E k \in Steps : trace[k].op = "dupscan" /\ trace[k].i = 2
  /\ \E n \in 1..Len(log) : log[n] = [msg |-> "error", file |-> 1]
  /\ ~Absent(complexity_metrics)

\* C3: whatever the outcome of the structural analysis of a Python file
\* (success, syntax error, internal error), the generic sweep and the
\* duplicate-window scan then run on that same file, and the run goes on.
C3_SweepAfterStructural ==
  \A k \in Steps :
    (trace[k].op = "structural" /\ trace[k].outcome \in Failures \cup {"none"}) =>
      /\ GoesOn
      /\ (pc = "generic" /\ idx = trace[k].i) \/ k < Len(trace)
      /\ k < Len(trace) =>
           trace[k + 1] = Ev("generic", trace[k].i, "")
      /\ k + 1 < Len(trace) =>
           trace[k + 2] = Ev("dupscan", trace[k].i, "")
      /\ k + 2 < Len(trace) =>
           trace[k + 3].i \in {0, trace[k].i + 1}

C3_Witness ==
  /\ Done
  /\ \A r \in {"syntax", "other"} :
       \E k \in Steps :
         /\ trace[k].op = "structural" /\ trace[k].outcome = r
         /\ trace[k + 2] = Ev("dupscan", trace[k].i, "")


\* The failed structural attempts on a path, and the findings they leave.
FailedAttempts(p) ==
  {k \in Steps : /\ trace[k].op = "structural"
                 /\ trace[k].outcome \in Failures
                 /\ PathAt(trace[k].i) = p}
FailureTypes == {"syntax_error", "ast_feature_error", "ast_processing_error"}
FailureFindings(p) ==
  SelectSeq(style_issues[p], LAMBDA x : x.type \in FailureTypes)
\* The regex rule set has been applied once for each attempt on the path.
FallbackApplied(p, f, n) ==
  /\ \A r \in DOMAIN PYTHON_ANTI_PATTERNS :
       Len(SelectSeq(code_smells[p], LAMBDA x : x.type = r))
         = n * Len(f.pyMatch[r])
  /\ \A r \in DOMAIN PYTHON_ANTI_PATTERNS : \A m \in 1..Len(f.pyMatch[r]) :
       \E n2 \in 1..Len(code_smells[p]) :
         code_smells[p][n2] = Finding(r, PYTHON_ANTI_PATTERNS[r], f.pyMatch[r][m])
  /\ f.regexDeps \subseteq dependencies[p]

\* C4 (as claimed): when structural analysis of a Python file fails, one
\* style finding describing the failure is appended, of severity "warning"
\* for a syntax error and "error" for any other failure, and the Python
\* regex rule set is applied as the fallback.
C4_AsClaimed ==
  \A k \in Steps :
    (trace[k].op = "structural" /\ trace[k].outcome \in Failures) =>
      LET p == PathAt(trace[k].i)
      IN /\ Len(FailureFindings(p)) = Cardinality(FailedAttempts(p))
         /\ \A n \in 1..Len(FailureFindings(p)) :
              FailureFindings(p)[n].severity =
                (IF trace[k].outcome = "syntax" THEN "warning" ELSE "error")
         /\ FallbackApplied(p, FileAt(trace[k].i), Cardinality(FailedAttempts(p)))

\* C4 (amended): when structural analysis of a Python file fails, exactly
\* one style finding describing the failure is appended for each failed
\* attempt, of severity "warning" when the failure is a syntax error or an
\* AttributeError and "error" when it is any other exception, and the
\* Python regex rule set is then applied to the file as the fallback.
C4_FailureFinding ==
  \A k \in Steps :
    (trace[k].op = "structural" /\ trace[k].outcome \in Failures) =>
      LET p == PathAt(trace[k].i)
      IN /\ Len(FailureFindings(p)) = Cardinality(FailedAttempts(p))
         /\ \A n \in 1..Len(FailureFindings(p)) :
              /\ FailureFindings(p)[n].severity =
                   (IF trace[k].outcome \in {"syntax", "attr"}
                    THEN "warning" ELSE "error")
              /\ FailureFindings(p)[n].type =
                   (CASE trace[k].outcome = "syntax" -> "syntax_error"
                      [] trace[k].outcome = "attr" -> "ast_feature_error"
                      [] OTHER -> "ast_processing_error")
         /\ FallbackApplied(p, FileAt(trace[k].i), Cardinality(FailedAttempts(p)))

C4_Witness ==
  /\ Done /\ Len(files) = 2 /\ PathAt(1) # PathAt(2)
  /\ FileAt(1).astFail = "attr" /\ FileAt(2).astFail = "other"
  /\ Len(FailureFindings(PathAt(1))) = 1
  /\ FailureFindings(PathAt(1))[1].severity = "warning"
  /\ Len(FailureFindings(PathAt(2))) = 1
  /\ FailureFindings(PathAt(2))[1].severity = "error"
  /\ \E n \in 1..Len(code_smells[PathAt(2)]) :
       code_smells[PathAt(2)][n].type = "mutable_default"

\* The kinds of finding that only the walk over the functions produces.
StructuralTypes ==
  {"too_many_parameters", "long_function", "high_complexity", "deep_nesting"}

\* C5: when structural analysis of a file fails at any point, no structural
\* result of that file is kept: no function metrics, no function-level or
\* deep-nesting finding, no import-graph entry.
C5_NoPartialResults ==
  \A k \in Steps :
    (trace[k].op = "structural" /\ trace[k].outcome \in Failures) =>
      LET p == PathAt(trace[k].i)
      IN /\ function_metrics[p] = {}
         /\ import_graph[p] = {}
         /\ \A n \in 1..Len(code_smells[p]) :
              code_smells[p][n].type \notin StructuralTypes


\* The reported duplicate groups and their locations.
Groups == 1..Len(duplicated_code)
GroupLocs(g) ==
  {<<duplicated_code[g].files[n].file_path, duplicated_code[g].files[n].start_line>> :
     n \in 1..Len(duplicated_code[g].files)}
Covers(g, p) == \E loc \in GroupLocs(g) : loc[1] = p
Scanned(i) == \E k \in Steps : trace[k] = Ev("dupscan", i, "")
\* The start lines of the windows of a file that are hashed.
QualStarts(f) ==
  {st \in 1..(Len(f.clean) - 4) : Qualifies(SubSeq(f.clean, st, st + 4))}
HashAt(f, st) == Hash(seed, SubSeq(f.clean, st, st + 4))
\* Every scanned window location whose text hashes to h.
LocationsHashedTo(h) ==
  UNION {{<<PathAt(i), st>> : st \in {x \in QualStarts(FileAt(i)) :
                                        HashAt(FileAt(i), x) = h}} :
         i \in {j \in 1..Len(files) : Scanned(j)}}
\* Two entries of the input with identical content at different paths.
Twins(i, j) ==
  /\ PathAt(i) # PathAt(j) /\ files[i].kind = files[j].kind
  /\ Scanned(i) /\ Scanned(j)

C7_GroupsDisjoint ==
  /\ \A g \in Groups :
       /\ Cardinality(GroupLocs(g)) >= 2
       /\ Len(duplicated_code[g].files) = Cardinality(GroupLocs(g))
  /\ \A g, h \in Groups : g # h => GroupLocs(g) \cap GroupLocs(h) = {}

C7_Witness ==
  /\ Done /\ Len(duplicated_code) = 1
  /\ Len(duplicated_code[1].files) = 2
  /\ \E b \in 1..Len(duplicated_blocks) : Len(duplicated_blocks[b].occ) = 4

\* The duplicate_code findings of a path, and the line of the finding a
\* group gives a path: the start line of the path's first location in it.
DupFindings(p) ==
  SelectSeq(code_smells[p], LAMBDA x : x.type = "duplicate_code")
FirstStart(g, p) ==
  LET fs == duplicated_code[g].files
      n == CHOOSE n \in 1..Len(fs) :
             fs[n].file_path = p
             /\ \A m \in 1..(n - 1) : fs[m].file_path # p
  IN fs[n].start_line

\* C8: each file that contributes at least one location to a reported
\* group has exactly one duplicate_code finding, of severity high, for that
\* group, however many locations it contributes; a file that contributes to
\* no reported group has no duplicate_code finding.
C8_OneFindingPerFileAndGroup ==
  \A p \in PathIds :
    /\ Len(DupFindings(p)) = Cardinality({g \in Groups : Covers(g, p)})
    /\ \A n \in 1..Len(DupFindings(p)) : DupFindings(p)[n].severity = "high"
    /\ \A g \in Groups :
         Covers(g, p) =>
           Cardinality({n \in 1..Len(DupFindings(p)) :
                          /\ DupFindings(p)[n].line = FirstStart(g, p)
                          /\ DupFindings(p)[n].info = Len(duplicated_code[g].files)})
             = 1

C8_Witness ==
  /\ Done /\ Len(duplicated_code) = 1
  /\ Cardinality({loc \in GroupLocs(1) : loc[1] = 1}) = 2
  /\ Cardinality({loc \in GroupLocs(1) : loc[1] = 2}) = 2
  /\ Len(DupFindings(1)) = 1 /\ Len(DupFindings(2)) = 1

\* The weight the claim's table gives a severity (none to any other).
TableWeight(severity) == IssueWeight(severity, 0)
RECURSIVE TableSum(_, _)
TableSum(issues, k) ==
  IF k = 0 THEN 0 ELSE TableSum(issues, k - 1) + TableWeight(issues[k].severity)
TableTotal(byPath) ==
  SumFn([p \in PathIds |-> TableSum(byPath[p], Len(byPath[p]))], PathIds)

\* C9: technical_debt_hours is the sum over all findings of all categories
\* (code smell, security, performance and style) of the severity weight,
\* security findings counting 1.5 times, plus 3 hours per duplicate group;
\* technical_debt_days is hours / 8 rounded to one decimal.  (Hours are
\* compared in half hours, days in tenths.)
C9_DebtOverAllFindings ==
  ~Absent(complexity_metrics) =>
    /\ complexity_metrics.technical_debt_hours =
         2 * TableTotal(code_smells) + 3 * TableTotal(security_issues)
         + 2 * TableTotal(performance_issues) + 2 * TableTotal(style_issues)
         + 6 * Len(duplicated_code)
    /\ complexity_metrics.technical_debt_days =
         RoundHalfEven(10 * complexity_metrics.technical_debt_hours, 16)

\* C10: every maintainability index a run produces lies between 0 and 100
\* (here in hundredths), however extreme the input.
C10_IndexInRange ==
  ~Absent(complexity_metrics) =>
    /\ 0 <= complexity_metrics.maintainability_index
    /\ complexity_metrics.maintainability_index <= 10000

C10_Witness ==
  /\ Done /\ ~Absent(complexity_metrics)
  /\ maintainability < 0 - 100000
  /\ avg_function_complexity = 100000
  /\ complexity_metrics.maintainability_index = 0


\* C11: when no file yields file metrics the aggregate step still produces
\* a metrics record whose counts, averages and ratios are all 0; and with
\* file metrics but no function the per-function averages are 0.
C11_ZeroProjectRecord ==
  Done =>
    /\ ~Absent(complexity_metrics)
    /\ NoFileMetrics =>
         /\ complexity_metrics.total_lines_of_code = 0
         /\ complexity_metrics.total_comment_lines = 0
         /\ complexity_metrics.comment_density = 0
         /\ complexity_metrics.avg_line_length = 0
         /\ complexity_metrics.code_smell_count = 0
         /\ complexity_metrics.duplicated_code_blocks = 0
    /\ all_functions = {} =>
         /\ complexity_metrics.avg_function_complexity = 0
         /\ complexity_metrics.avg_function_size = 0
         /\ complexity_metrics.avg_function_params = 0


\* The structural analysis of entry i of the input ran to its end.
Walked(i) ==
  \E k \in Steps : trace[k] = Ev("structural", i, "none")
\* No other entry of the input names the path of entry i.
Alone(i) == \A j \in 1..Len(files) : j # i => PathAt(j) # PathAt(i)
\* How many findings of a type a path has at a line, or within some lines.
CountSmells(p, t, l) ==
  Cardinality({n \in 1..Len(code_smells[p]) :
                 code_smells[p][n].type = t /\ code_smells[p][n].line = l})
CountSmellsIn(p, t, ls) ==
  Cardinality({n \in 1..Len(code_smells[p]) :
                 code_smells[p][n].type = t /\ code_smells[p][n].line \in ls})
NestLines(fn) == {fn.nest[k].line : k \in 1..Len(fn.nest)}
\* The control constructs below the function form one chain of nesting.
IsChain(fn) == \A k \in 1..Len(fn.nest) : fn.nest[k].depth = k

\* C12: a function whose control constructs form one chain of nesting of
\* depth d > 4 (such as a 6-level-deep nested conditional) gets exactly
\* one deep_nesting finding, at the construct of depth 5, not d - 4.
C12_OneFindingPerChain ==
  \A i \in 1..Len(files) :
    (Walked(i) /\ Alone(i)) =>
      \A j \in 1..Len(FileAt(i).funcs) :
        LET fn == FileAt(i).funcs[j]
        IN (IsChain(fn) /\ Len(fn.nest) > 4) =>
             /\ CountSmellsIn(PathAt(i), "deep_nesting", NestLines(fn)) = 1
             /\ CountSmells(PathAt(i), "deep_nesting", fn.nest[5].line) = 1

\* The lines of the functions whose metrics the analysis of entry i stores.
Recorded(i) ==
  {FileAt(i).funcs[j].line : j \in 1..FunctionsRecorded(FileAt(i))}
\* How many analyses of path p have measured the function at line l.
Attempts(p, l) ==
  Cardinality({k \in Steps : /\ trace[k].op = "structural"
                            /\ PathAt(trace[k].i) = p
                            /\ l \in Recorded(trace[k].i)})
FunctionSmellTypes == {"too_many_parameters", "long_function", "high_complexity"}

\* C13: for every function the structural analysis measures, each analysis
\* of its file emits one too_many_parameters finding if the function has
\* more than 5 parameters and none otherwise, one long_function finding if
\* it spans more than 50 lines and none otherwise, one high_complexity
\* finding if its complexity is over 10 and none otherwise; every such
\* finding has severity medium and is at the line of a measured function.
C13_FunctionThresholds ==
  \A p \in PathIds :
    /\ \A m \in function_metrics[p] :
         /\ CountSmells(p, "too_many_parameters", m.line)
              = IF m.params > 5 THEN Attempts(p, m.line) ELSE 0
         /\ CountSmells(p, "long_function", m.line)
              = IF m.lines > 50 THEN Attempts(p, m.line) ELSE 0
         /\ CountSmells(p, "high_complexity", m.line)
              = IF m.complexity > 10 THEN Attempts(p, m.line) ELSE 0
    /\ \A n \in 1..Len(code_smells[p]) :
         code_smells[p][n].type \in FunctionSmellTypes =>
           /\ code_smells[p][n].severity = "medium"
           /\ \E m \in function_metrics[p] : m.line = code_smells[p][n].line

C13_Witness ==
  /\ Done
  /\ \E p \in PathIds :
       /\ Attempts(p, 3) = 1
       /\ \E m \in function_metrics[p] :
            /\ m.params = 6 /\ m.lines = 51 /\ m.complexity = 11
            /\ \A t \in FunctionSmellTypes : CountSmells(p, t, m.line) = 1
       /\ \E m \in function_metrics[p] :
            /\ m.params = 5 /\ m.lines = 50 /\ m.complexity = 10
            /\ \A t \in FunctionSmellTypes : CountSmells(p, t, m.line) = 0

\* The complexity the claim describes: one per branching construct,
\* exception-handling clauses included, and one per extra operand of any
\* boolean chain.
ClaimedStep(node) ==
  IF node.type \in {"If", "While", "For", "Try", "ExceptHandler", "AsyncFor"}
  THEN 1
  ELSE IF node.type = "BoolOp" THEN node.operands - 1
  ELSE 0
RECURSIVE ClaimedWalk(_, _)
ClaimedWalk(nodes, k) ==
  IF k = 0 THEN 0
  ELSE ClaimedWalk(nodes, k - 1) + ClaimedStep(nodes[k])
       + ClaimedWalk(nodes[k].children, Len(nodes[k].children))

\* C14: the complexity stored for a function is 1 + the number of its
\* branching constructs (if, while, for, try, exception-handling clauses)
\* + (operands - 1) for every boolean chain, `and` or `or`; so it is >= 1.
C14_ComplexityAsClaimed ==
  \A i \in 1..Len(files) :
    \A j \in 1..Len(FileAt(i).funcs) :
      \A m \in function_metrics[PathAt(i)] :
        m.line = FileAt(i).funcs[j].line =>
          /\ m.complexity = 1 + ClaimedWalk(<<FileAt(i).funcs[j].node>>, 1)
          /\ m.complexity >= 1

\* The depth of each control construct counted within its own function:
\* the walk does not go into a nested function.
RECURSIVE OwnNesting(_, _, _)
OwnNesting(nodes, k, depth) ==
  IF k = 0 THEN <<>>
  ELSE LET node == nodes[k]
           d == IF node.type \in ControlTypes THEN depth + 1 ELSE depth
       IN OwnNesting(nodes, k - 1, depth)
          \o (IF node.type \in ControlTypes
              THEN <<[depth |-> d, line |-> node.line]>> ELSE <<>>)
          \o (IF node.type = "FunctionDef" THEN <<>>
              ELSE OwnNesting(node.children, Len(node.children), d))
OverDeepLines(f) ==
  UNION {LET own == OwnNesting(f.funcs[j].node.children,
                               Len(f.funcs[j].node.children), 0)
         IN {own[k].line : k \in {x \in 1..Len(own) : own[x].depth > 4}} :
         j \in 1..Len(f.funcs)}
ConstructLines(f) == UNION {NestLines(f.funcs[j]) : j \in 1..Len(f.funcs)}

\* C20: the depth behind deep_nesting findings counts the enclosing
\* control constructs of any type within the function's own body and
\* starts at 0 for each function, nested ones included: a construct gets
\* one deep_nesting finding if more than 4 constructs of its own function
\* enclose it (itself counted), and none otherwise.
C20_DepthResetsPerFunction ==
  \A i \in 1..Len(files) :
    (Walked(i) /\ Alone(i)) =>
      \A l \in ConstructLines(FileAt(i)) :
        CountSmells(PathAt(i), "deep_nesting", l)
          = IF l \in OverDeepLines(FileAt(i)) THEN 1 ELSE 0


\* C16: the object analyze_project returns holds the findings of each
\* category by file, the function metrics by file, the duplicate groups,
\* the project metrics, the dependency graph and the recommendation list.
C16_ResultHoldsAll ==
  Done =>
    /\ {"code_smells", "security_issues", "performance_issues", "style_issues",
        "duplicated_code", "complexity_metrics", "import_graph"}
         \subseteq DOMAIN ReturnedObject
    /\ "function_metrics" \in DOMAIN ReturnedObject
    /\ "recommendations" \in DOMAIN ReturnedObject


\* The generic sweep of entry i of the input has run.
Swept(i) == \E k \in Steps : trace[k] = Ev("generic", i, "")

\* C17: for every loop whose block holds another loop, the generic sweep
\* of the file emits a nested_loops performance finding of severity high
\* at the line of the outer loop.
C17_NestedLoopsReported ==
  \A i \in 1..Len(files) :
    Swept(i) =>
      \A n \in 1..Len(FileAt(i).nestedLoops) :
        \E k \in 1..Len(performance_issues[PathAt(i)]) :
          /\ performance_issues[PathAt(i)][k].type = "nested_loops"
          /\ performance_issues[PathAt(i)][k].severity = "high"
          /\ performance_issues[PathAt(i)][k].line = FileAt(i).nestedLoops[n]


\* The maximal runs of consecutive comment lines of a file, as pairs
\* <<first line, last line>>.
IsCommentLine(kinds, l) == kinds[l] \in {"comment", "ccode"}
CommentRuns(kinds) ==
  {r \in (1..Len(kinds)) \X (1..Len(kinds)) :
     /\ r[1] <= r[2]
     /\ \A l \in r[1]..r[2] : IsCommentLine(kinds, l)
     /\ r[1] = 1 \/ ~IsCommentLine(kinds, r[1] - 1)
     /\ r[2] = Len(kinds) \/ ~IsCommentLine(kinds, r[2] + 1)}
\* The runs the claim has reported: 2 or more lines, one code-shaped.
CodeShapedRuns(kinds) ==
  {r \in CommentRuns(kinds) :
     r[2] > r[1] /\ \E l \in r[1]..r[2] : kinds[l] = "ccode"}

\* C18: every maximal run of 2 or more consecutive comment lines with at
\* least one code-shaped line gives exactly one commented_code finding, of
\* severity low, at the first line of the run; no other run or single
\* comment line gives one.
C18_OneFindingPerRun ==
  \A i \in 1..Len(files) :
    (Swept(i) /\ Alone(i)) =>
      LET kinds == FileAt(i).lineKinds
          p == PathAt(i)
          found == {n \in 1..Len(code_smells[p]) :
                      code_smells[p][n].type = "commented_code"}
      IN /\ Cardinality(found) = Cardinality(CodeShapedRuns(kinds))
         /\ \A n \in found : code_smells[p][n].severity = "low"
         /\ \A r \in CodeShapedRuns(kinds) :
              CountSmells(p, "commented_code", r[1]) = 1


\* The findings of a category at a path hold a finding of a rule at a line.
HasFinding(byPath, p, rule, severity, l) ==
  \E n \in 1..Len(byPath[p]) :
    /\ byPath[p][n].type = rule /\ byPath[p][n].severity = severity
    /\ byPath[p][n].line = l
\* Every match of every rule in `rules` that does not raise is reported.
OthersApplied(byPath, p, rules, sevOf, match, bad) ==
  \A r \in rules \ bad :
    \A n \in 1..Len(match[r]) : HasFinding(byPath, p, r, sevOf[r], match[r][n])
\* The pass of entry i met a rule that raises.
RuleRaised(i) ==
  LET f == FileAt(i)
  IN /\ f.lang # "Unknown" /\ f.readable
     /\ \/ f.lang = "Python" /\ f.raises.py # {}
        \/ f.lang = "JavaScript" /\ f.raises.js # {}
        \/ SecurityRulesUsed(f) \cap f.raises.sec # {}
        \/ PerformanceRulesUsed(f) \cap f.raises.perf # {}

\* C19: when the evaluation of a rule raises on a file, in any sweep, a
\* message is logged for the file, every other rule of the sweeps is still
\* applied to it, and the rest of its pass (file metrics, duplicate-window
\* scan) is carried out.
C19_RaisingRuleSkipped ==
  Done =>
    \A i \in 1..Len(files) :
      RuleRaised(i) =>
        LET f == FileAt(i)
            p == PathAt(i)
        IN /\ \E k \in 1..Len(log) :
                log[k].file = i /\ log[k].msg \in {"regex error", "error"}
           /\ f.lang = "Python" =>
                OthersApplied(code_smells, p, DOMAIN PYTHON_ANTI_PATTERNS,
                              PYTHON_ANTI_PATTERNS, f.pyMatch, f.raises.py)
           /\ f.lang = "JavaScript" =>
                OthersApplied(code_smells, p, DOMAIN JS_ANTI_PATTERNS,
                              JS_ANTI_PATTERNS, f.jsMatch, f.raises.js)
           /\ OthersApplied(security_issues, p, SecurityRulesUsed(f),
                            SecuritySeverity, f.secMatch, f.raises.sec)
           /\ OthersApplied(performance_issues, p, PerformanceRulesUsed(f),
                            PerformanceSeverity, f.perfMatch, f.raises.perf)
           /\ ~Absent(file_metrics[p])
           /\ Scanned(i)


\* The findings of a category as a set of <<path, finding>>.
FindingSet(byPath) ==
  UNION {{<<p, byPath[p][n]>> : n \in 1..Len(byPath[p])} : p \in PathIds}
\* The present results agree with those of the earlier run.
SameAsEarlier ==
  /\ FindingSet(code_smells) = FindingSet(earlier.code_smells)
  /\ FindingSet(security_issues) = FindingSet(earlier.security_issues)
  /\ FindingSet(performance_issues) = FindingSet(earlier.performance_issues)
  /\ FindingSet(style_issues) = FindingSet(earlier.style_issues)
  /\ function_metrics = earlier.function_metrics
  /\ duplicated_code = earlier.duplicated_code
  /\ complexity_metrics = earlier.complexity_metrics

\* C15: a second run of analyze_project over the unchanged file set
\* returns the same finding sets, function metrics and project metrics as
\* the first, whatever state the first run left and whatever the process.
C15_SecondRunIdentical ==
  (Done /\ earlier.mode # "first") => SameAsEarlier

\* The final reduction: from the end of the loop over the files to the
\* return of the results.
InReduction ==
  \/ pc = "loop" /\ FilesDone
  \/ pc \in {"practices", "metrics", "return"}
\* The pass of a file is in progress.
InFilePass == pc \in {"loop", "generic", "dupscan"} /\ ~FilesDone
IsPrefix(s, t) == Len(s) <= Len(t) /\ SubSeq(t, 1, Len(s)) = s
\* The findings of a path, over the four categories.
FindingsOf(p) ==
  <<code_smells[p], security_issues[p], performance_issues[p],
    style_issues[p]>>

ModuleImports ==
  {"os", "re", "ast", "json", "datetime", "time", "defaultdict", "Counter",
   "chardet"}

\* metrics.get('maintainability_rating', '')
RatingOf(metrics) ==
  IF Absent(metrics) THEN "" ELSE metrics.maintainability_rating

\* get_summary: a text, or the exception it ends with. A rating that is
\* none of the five bands sends it to random.choice.
get_summary ==
  IF RatingOf(complexity_metrics)
       \in {"Excellent", "Good", "Fair", "Poor", "Very Poor"}
  THEN [outcome |-> "returns", text |-> RatingOf(complexity_metrics)]
  ELSE IF "random" \in ModuleImports
       THEN [outcome |-> "returns", text |-> "quote"]
       ELSE [outcome |-> "raises", text |-> "NameError"]

\* get_recommendations reads the counts with defaults and joins its lines.
get_recommendations == [outcome |-> "returns", text |-> "recommendations"]

\* _prepare_template_data: round(metrics.get('maintainability_index', 0)),
\* then the bands of the rounded score.
maintainability_score ==
  IF Absent(complexity_metrics) THEN 0
  ELSE RoundHalfEven(complexity_metrics.maintainability_index, 100)

ReporterRating ==
  IF maintainability_score >= 80 THEN "Excellent"
  ELSE IF maintainability_score >= 60 THEN "Good"
  ELSE IF maintainability_score >= 40 THEN "Fair"
  ELSE IF maintainability_score >= 20 THEN "Poor"
  ELSE "Very Poor"

\* C25: after analyze_project has returned, get_summary and
\* get_recommendations each return a text and never raise, also when no
\* file produced file metrics.
C25_TextsNeverRaise ==
  Done => /\ get_summary.outcome = "returns"
          /\ get_recommendations.outcome = "returns"

\* C26: the rating the reporter derives equals the maintainability_rating
\* the engine computed for the same run.
C26_ReporterRatingIsEngineRating ==
  Done => ReporterRating = RatingOf(complexity_metrics)

\* The entry of the input a path names, and the normalized window of a
\* location.
EntryOf(p) == CHOOSE i \in 1..Len(files) : PathAt(i) = p
WindowAt(loc) ==
  LET clean == FileAt(EntryOf(loc.file_path)).clean
  IN SubSeq(clean, loc.start_line, loc.end_line)

\* C27: every location of a reported duplicate group has the same
\* normalized 5-line window text as the group's code snippet, whatever
\* values the content hash takes.
C27_GroupSharesOneText ==
  Done =>
    \A g \in Groups :
      \A n \in 1..Len(duplicated_code[g].files) :
        WindowAt(duplicated_code[g].files[n])
          = duplicated_code[g].code_snippet.text

\* C28: after analyze_project, results['import_graph'] and
\* results['dependencies'] map every analyzed file to the same set of
\* import targets, whichever path recorded them.
C28_GraphEqualsDependencies ==
  Done => \A p \in PathIds :
            ReturnedObject.import_graph[p] = ReturnedObject.dependencies[p]

\* The file of entry i went through _analyze_js_file to its end.
JsAnalyzed(i) == \E k \in Steps : trace[k] = Ev("structural", i, "js")

\* C29: for every JavaScript/TypeScript file, _analyze_js_file emits a
\* long_function finding of severity medium for each function it detects
\* whose body spans more than 50 lines.
C29_JsLongFunctionsReported ==
  Done =>
    \A i \in 1..Len(files) :
      JsAnalyzed(i) =>
        \A k \in 1..Len(FileAt(i).jsFuncs) :
          FileAt(i).jsFuncs[k].lines > 50 =>
            \E n \in 1..Len(code_smells[PathAt(i)]) :
              code_smells[PathAt(i)][n]
                = Finding("long_function", "medium", FileAt(i).jsFuncs[k].line)

SafetyReturned == safety_pc = "returned"

\* C22: run_safety_check never raises and always returns a result whose
\* status is one of Not Run, No File, Secure, Vulnerable, Error, whatever
\* the file lookup, the version probe, the scan and the parsing of its
\* output come to; the error field is non-null exactly when the status is
\* No File or Error.
C22_AlwaysReturnsAStatus ==
  /\ safety_pc # "raised"
  /\ SafetyReturned =>
       /\ safety_results.status
            \in {"Not Run", "No File", "Secure", "Vulnerable", "Error"}
       /\ safety_results.error # "None"
            <=> safety_results.status \in {"No File", "Error"}

\* The scan subprocess could not be run, and the function returned an
\* error result.
C22_Witness ==
  /\ SafetyReturned
  /\ safety_results.safety_version # "None"
  /\ process = NoProcess
  /\ safety_results.status = "Error"

\* C30: run_safety_check returns a non-empty vulnerabilities list only
\* together with status 'Vulnerable'; when the processing of the output
\* fails part-way the list returned is empty.
C30_NoPartialVulnerabilities ==
  SafetyReturned =>
    (safety_results.vulnerabilities # <<>>
       => safety_results.status = "Vulnerable")

Reports == 1..Len(reports)

\* C23: under any interleaving of ANALYZE CODE, RUN ADVANCED ANALYSIS and
\* their worker threads, an advanced report is made from basic results and
\* advanced results of the same project and the same basic-analysis run.
C23_ReportOfOneRun ==
  \A r \in Reports :
    /\ reports[r].basic.project = reports[r].advanced.project
    /\ reports[r].basic.run = reports[r].advanced.run

\* C24: the dependency scan and the dependency graph embedded in an
\* advanced report were computed for the project reported on and from the
\* advanced results reported; extras computed earlier are never carried
\* over into a new report.
C24_ExtrasOfTheReportedRun ==
  \A r \in Reports :
    ~Absent(reports[r].extras) =>
      /\ ~Absent(reports[r].extras.dependency_scan) =>
           reports[r].extras.dependency_scan.project
             = reports[r].advanced.project
      /\ ~Absent(reports[r].extras.dependency_graph) =>
           /\ reports[r].extras.dependency_graph.project
                = reports[r].advanced.project
           /\ reports[r].extras.dependency_graph.advanced
                = reports[r].advanced.id


====
